---- MODULE Spec2Model ----
(***************************************************************************)
(* A model of the AzurKnowledge scripts:                                   *)
(*   - the equipment scraper and its progress tracker                      *)
(*     (azur-lane-equipment-db/scripts: scraper.py, run_collection.py,     *)
(*     utils.py), and                                                      *)
(*   - the data parser and exporter (azur_lane_data_parser.py).            *)
(* Python values are modelled with their run-time type, Python strings as  *)
(* sequences of characters, Python dicts in insertion order.               *)
(***************************************************************************)
EXTENDS Integers, Sequences, FiniteSets, TLC

VARIABLES
    progress_file,  \* progress.json on disk
    last_call,      \* the last update_progress call: its arguments and outcome
    disk,           \* the game-data snapshot: file name -> file
    outdir,         \* whether the output directory can be created
    pc,             \* position of AzurLaneDataParser.run()
    loaded,         \* what load_json returned for each file read so far
    weapon_names,   \* self.weapon_names
    weapons,        \* self.weapons
    equipment,      \* self.equipment
    ships,          \* self.ships
    console,        \* what run() has printed: counts and diagnostics
    out_files,      \* the files of the output directory
    field_value,    \* the value handed to sanitize_csv_field
    field_result,   \* what sanitize_csv_field returned for it
    equipment_files,\* data/equipment/<type>.json: equipment type -> file
    main_pc,        \* position of run_collection.main()
    todo,           \* the items main() has still to process
    processed,      \* the items main() has saved, each with its status
    batch,          \* main(): batch
    batch_status,   \* main(): batch_status
    commit_calls    \* the calls of commit_changes so far

progress_vars == <<progress_file, last_call>>
parser_vars == <<disk, outdir, pc, loaded, weapon_names, weapons, equipment, ships,
                 console, out_files>>
sanitize_vars == <<field_value, field_result>>
main_vars == <<main_pc, todo, processed, batch, batch_status, commit_calls>>
vars == <<progress_file, last_call, disk, outdir, pc, loaded, weapon_names, weapons,
          equipment, ships, console, out_files, field_value, field_result,
          equipment_files, main_pc, todo, processed, batch, batch_status,
          commit_calls>>

(***************************************************************************)
(* Bounds of the model.                                                    *)
(***************************************************************************)
\* how many of the items of run_collection.py are tracked
NumItems == 3
\* longest bucket of a hand-written progress file
MaxBucketLen == 2

(***************************************************************************)
(* Sequence helpers.                                                       *)
(***************************************************************************)
Range(s) == {s[i] : i \in 1..Len(s)}

\* list.remove(x): drops the first occurrence of x, the rest stays in order
RECURSIVE RemoveFirst(_, _)
RemoveFirst(s, x) ==
    IF s = <<>> THEN <<>>
    ELSE IF Head(s) = x THEN Tail(s)
    ELSE <<Head(s)>> \o RemoveFirst(Tail(s), x)

\* how often x occurs in s
Count(s, x) == Cardinality({i \in 1..Len(s) : s[i] = x})

(***************************************************************************)
(* The progress tracker: utils.py.                                         *)
(***************************************************************************)
items_to_process ==
    << "Twin 127mm (5\"/38 Mk 38)", "Triple 152mm Main Gun",
       "203mm/53 Twin Gun Mount", "305mm/50 Twin Gun Mount",
       "410mm/45 Triple Gun Mount", "Type 96 25mm AA Gun", "Type 93 Torpedo",
       "Type 95 Torpedo", "A6M Zero Fighter", "D3A1 Val Dive Bomber",
       "B5N2 Kate Torpedo Bomber", "F1M Pete Seaplane", "Radar Type 0",
       "Fire Control System", "Depth Charge" >>

Items == {items_to_process[i] : i \in 1..NumItems}

\* the four completeness buckets
Buckets == {"basic", "completed", "partial", "failed"}

\* the keys update_progress makes sure exist
ProgressKeys == Buckets \cup {"retry_queue", "last_updated"}

\* what scrape_item can label an item, and the four bucket names
Statuses == Buckets \cup {"complete"}

\* datetime.now().isoformat(): the clock is an input
Timestamps == {"2025-01-01T00:00:00", "2025-01-02T00:00:00"}

\* a JSON value of the progress document: a list of names, or a text
JList(s) == [islist |-> TRUE, items |-> s, text |-> ""]
JText(t) == [islist |-> FALSE, items |-> <<>>, text |-> t]

\* progress.json: missing, undecodable, decoding to something that is no
\* dict, or decoding to the dict d (d = <<>> is the empty dict)
FileMissing == [kind |-> "missing", d |-> <<>>]
FileMalformed == [kind |-> "malformed", d |-> <<>>]
FileNonDict == [kind |-> "nondict", d |-> <<>>]
FileDict(d) == [kind |-> "dict", d |-> d]

\* utils.load_json: [] for a missing file; json.load raises on a file it
\* cannot decode
load_progress(file) ==
    CASE file.kind = "missing" -> [raised |-> FALSE, isdict |-> FALSE, d |-> <<>>]
      [] file.kind = "malformed" -> [raised |-> TRUE, isdict |-> FALSE, d |-> <<>>]
      [] file.kind = "nondict" -> [raised |-> FALSE, isdict |-> FALSE, d |-> <<>>]
      [] OTHER -> [raised |-> FALSE, isdict |-> TRUE, d |-> file.d]

\* lines 28-43: a dict with every required key
with_defaults(raw) ==
    LET progress == IF ~raw.isdict \/ DOMAIN raw.d = {} THEN <<>> ELSE raw.d
    IN  [key \in ProgressKeys \cup DOMAIN progress |->
            IF key \in DOMAIN progress THEN progress[key]
            ELSE IF key = "last_updated" THEN JText("") ELSE JList(<<>>)]

\* a faulty variant: the item is left where it was
remove_from_bucket_skipped(current_list, item_name) == current_list

\* lines 47-50, one pass of the loop: list.remove drops one occurrence
remove_from_bucket(current_list, item_name) ==
    IF current_list.islist /\ item_name \in Range(current_list.items)
    THEN JList(RemoveFirst(current_list.items, item_name))
    ELSE current_list

\* lines 46-50
remove_from_buckets(progress, item_name) ==
    [key \in DOMAIN progress |->
        IF key \in Buckets THEN remove_from_bucket(progress[key], item_name)
        ELSE progress[key]]

\* a faulty variant: the label 'complete' is taken for the bucket 'completed'
add_to_bucket_complete_as_completed(progress, item_name, status) ==
    LET bucket == IF status = "complete" THEN "completed" ELSE status
    IN  IF bucket \in Buckets
        THEN LET target_list == IF progress[bucket].islist
                                THEN progress[bucket].items ELSE <<>>
             IN  [progress EXCEPT ![bucket] = JList(Append(target_list, item_name))]
        ELSE progress

\* lines 53-58
add_to_bucket(progress, item_name, status) ==
    IF status \in Buckets
    THEN LET target_list == IF progress[status].islist
                            THEN progress[status].items ELSE <<>>
         IN  [progress EXCEPT ![status] = JList(Append(target_list, item_name))]
    ELSE progress

\* a faulty variant: the item is removed from the other buckets only, and
\* stays in the bucket it is added to
updated_progress_others_cleaned(raw, item_name, status, now) ==
    LET filled == with_defaults(raw)
        removed == [key \in DOMAIN filled |->
                       IF key \in Buckets \ {status}
                       THEN remove_from_bucket(filled[key], item_name)
                       ELSE filled[key]]
        added == add_to_bucket(removed, item_name, status)
    IN  [added EXCEPT !["last_updated"] = JText(now)]

\* lines 22-61: the document update_progress saves
updated_progress(raw, item_name, status, now) ==
    LET filled == with_defaults(raw)
        removed == remove_from_buckets(filled, item_name)
        added == add_to_bucket(removed, item_name, status)
    IN  [added EXCEPT !["last_updated"] = JText(now)]

\* the members of a bucket of the file, in order (none when the file holds
\* no such list)
BucketOf(file, b) ==
    IF file.kind = "dict" /\ b \in DOMAIN file.d /\ file.d[b].islist
    THEN file.d[b].items ELSE <<>>

BucketsOf(file) == [b \in Buckets |-> BucketOf(file, b)]

NoCall == [item |-> "", status |-> "", raised |-> FALSE, repeat |-> FALSE,
           moved |-> FALSE]

\* update_progress(item_name, status)
update_progress(item_name, status) ==
    LET raw == load_progress(progress_file)
    IN  /\ \E now \in Timestamps :
              progress_file' =
                  IF raw.raised THEN progress_file
                  ELSE FileDict(updated_progress(raw, item_name, status, now))
        /\ last_call' =
              [item |-> item_name, status |-> status, raised |-> raw.raised,
               repeat |-> /\ last_call.item = item_name
                          /\ last_call.status = status,
               moved |-> \E b \in Buckets \ {status} :
                            item_name \in Range(BucketOf(progress_file, b))]
        /\ UNCHANGED <<parser_vars, sanitize_vars>>

UpdateProgress ==
    /\ \E item_name \in Items, status \in Statuses :
          update_progress(item_name, status)
    /\ UNCHANGED <<equipment_files, main_vars>>


(***************************************************************************)
(* The scraper: scraper.py.                                                *)
(***************************************************************************)
\* the equipment type of each item of items_to_process
equipment_types ==
    << "destroyer_guns", "light_cruiser_guns", "heavy_cruiser_guns",
       "large_cruiser_guns", "battleship_guns", "anti_air_guns", "ship_torpedoes",
       "submarine_torpedoes", "fighters", "dive_bombers", "torpedo_bombers",
       "seaplanes", "auxiliary_equipment", "augment_modules",
       "anti_submarine_equipment" >>

\* what scrape_wiki and scrape_community_guides answer for one item: both
\* nothing (the two functions as they stand return {}), the wiki the
\* numbers only, or the wiki the numbers and the guides an analysis.  An
\* answer is the set of <<section, key>> it holds, or an exception.
ScrapeAnswers ==
    LET Answer(keys) == [raised |-> FALSE, data |-> keys]
    IN  {<<Answer({}), Answer({})>>,
         <<Answer({<<"stats_numerical", "damage">>}), Answer({})>>,
         <<Answer({<<"stats_numerical", "damage">>}),
           Answer({<<"derived_analysis", "tier">>})>>,
         <<[raised |-> TRUE, data |-> {}],
           Answer({<<"derived_analysis", "tier">>})>>}

\* lines 27-76: the record scrape_item builds from the answers of the two
\* sources; a source that raised or answered nothing adds nothing
scrape_item(item_name, equipment_type, wiki, community, now) ==
    LET Used(answer) == ~answer.raised /\ answer.data # {}
        Merged(section) ==
            {p[2] : p \in {q \in (IF Used(wiki) THEN wiki.data ELSE {})
                                 \cup (IF Used(community) THEN community.data ELSE {}) :
                              q[1] = section}}
    IN  [itemName |-> item_name,
         type |-> equipment_type,
         stats_numerical |-> Merged("stats_numerical"),
         derived_analysis |-> Merged("derived_analysis"),
         lastUpdated |-> now,
         sources |-> (IF Used(wiki) THEN <<"wiki">> ELSE <<>>)
                         \o (IF Used(community) THEN <<"community">> ELSE <<>>),
         dataCompleteness |->
             IF Merged("stats_numerical") # {} /\ Merged("derived_analysis") # {}
             THEN "complete"
             ELSE IF Merged("stats_numerical") # {} THEN "partial" ELSE "basic"]

\* a faulty variant: the record is appended whether or not its name is there
upserted_always_appended(existing_data, item_data) == Append(existing_data, item_data)

\* lines 97-106: the first record of that name is replaced, or the record
\* is appended
upserted(existing_data, item_data) ==
    LET found == {i \in 1..Len(existing_data) :
                     existing_data[i].itemName = item_data.itemName}
    IN  IF found # {}
        THEN [existing_data EXCEPT
                 ![CHOOSE i \in found : \A j \in found : i <= j] = item_data]
        ELSE Append(existing_data, item_data)

\* lines 90-115: save_item(item_data, equipment_type); load_json reads a
\* missing file as [], and the file is written before update_progress runs
save_item(item_data, equipment_type) ==
    /\ equipment_files' =
          [equipment_files EXCEPT ![equipment_type] =
              [exists |-> TRUE, items |-> upserted(@.items, item_data)]]
    /\ update_progress(item_data.itemName, item_data.dataCompleteness)

\* no equipment file yet, and main() not running
ScraperIdle ==
    /\ equipment_files =
          [t \in Range(equipment_types) |-> [exists |-> FALSE, items |-> <<>>]]
    /\ main_pc = "idle"
    /\ todo = <<>>
    /\ processed = <<>>
    /\ batch = <<>>
    /\ batch_status = <<>>
    /\ commit_calls = <<>>
(***************************************************************************)
(* Python values, as the json module decodes them and the parser handles   *)
(* them: every value carries its run-time type.  A str is its sequence of  *)
(* characters, a list its sequence of values, a dict its fields.           *)
(***************************************************************************)
PyInt(n) == [ty |-> "int", n |-> n, s |-> <<>>, l |-> <<>>, f |-> <<>>]
PyStr(s) == [ty |-> "str", n |-> 0, s |-> s, l |-> <<>>, f |-> <<>>]
PyList(l) == [ty |-> "list", n |-> 0, s |-> <<>>, l |-> l, f |-> <<>>]
PyDict(f) == [ty |-> "dict", n |-> 0, s |-> <<>>, l |-> <<>>, f |-> f]
PyNone == [ty |-> "none", n |-> 0, s |-> <<>>, l |-> <<>>, f |-> <<>>]

\* bool(v)
Truthy(v) ==
    CASE v.ty = "int" -> v.n # 0
      [] v.ty = "str" -> v.s # <<>>
      [] v.ty = "list" -> v.l # <<>>
      [] v.ty = "dict" -> DOMAIN v.f # {}
      [] OTHER -> FALSE

\* hash(v) is defined: a list and a dict are unhashable
Hashable(v) == v.ty \in {"int", "str", "none"}

AsciiDigits == <<"0", "1", "2", "3", "4", "5", "6", "7", "8", "9">>

DigitValue(c) == (CHOOSE i \in 1..10 : AsciiDigits[i] = c) - 1

\* U+00B2, SUPERSCRIPT TWO: a digit for str.isdigit, no digit for int
SuperscriptTwo == "sup2"

\* str.isdigit(): not empty, every character a digit
isdigit(s) ==
    /\ s # <<>>
    /\ \A i \in 1..Len(s) : s[i] \in Range(AsciiDigits) \cup {SuperscriptTwo}

RECURSIVE DecimalValue(_)
DecimalValue(s) ==
    IF s = <<>> THEN 0
    ELSE 10 * DecimalValue(SubSeq(s, 1, Len(s) - 1)) + DigitValue(s[Len(s)])

\* the digits of int(s): what follows an optional sign
Unsigned(s) == IF s # <<>> /\ Head(s) \in {"-", "+"} THEN Tail(s) ELSE s

\* int(s) does not raise ValueError (over an alphabet without blanks and
\* underscores)
int_ok(s) ==
    /\ Unsigned(s) # <<>>
    /\ \A i \in 1..Len(Unsigned(s)) : Unsigned(s)[i] \in Range(AsciiDigits)

\* int(s), where int_ok(s)
int_of(s) ==
    IF Head(s) = "-" THEN 0 - DecimalValue(Unsigned(s))
    ELSE DecimalValue(Unsigned(s))

RECURSIVE NatToStr(_)
NatToStr(n) ==
    IF n < 10 THEN <<AsciiDigits[n + 1]>>
    ELSE NatToStr(n \div 10) \o <<AsciiDigits[(n % 10) + 1]>>

\* str(n) of an int
IntToStr(n) == IF n < 0 THEN <<"-">> \o NatToStr(0 - n) ELSE NatToStr(n)

\* sep.join(parts), parts a sequence of strs
RECURSIVE Join(_, _)
Join(sep, parts) ==
    IF parts = <<>> THEN <<>>
    ELSE IF Len(parts) = 1 THEN parts[1]
    ELSE parts[1] \o sep \o Join(sep, Tail(parts))

\* str(v) and repr(v).  The text of a dict is abbreviated to its braces.
RECURSIVE py_str(_)
RECURSIVE py_repr(_)
py_repr(v) ==
    IF v.ty = "str" THEN <<"'">> \o v.s \o <<"'">> ELSE py_str(v)

py_str(v) ==
    CASE v.ty = "int" -> IntToStr(v.n)
      [] v.ty = "str" -> v.s
      [] v.ty = "none" -> <<"N", "o", "n", "e">>
      [] v.ty = "list" ->
            <<"[">> \o Join(<<",", " ">>, [i \in 1..Len(v.l) |-> py_repr(v.l[i])])
                    \o <<"]">>
      [] OTHER -> <<"{", "}">>

(***************************************************************************)
(* A dict in insertion order: a sequence of [k, v] with distinct keys.     *)
(***************************************************************************)
DictKeys(d) == {d[i].k : i \in 1..Len(d)}
DictHas(d, k) == k \in DictKeys(d)
DictGet(d, k) == d[CHOOSE i \in 1..Len(d) : d[i].k = k].v

\* a faulty variant: the collection as a list, every entry appended
DictSet_appending(d, k, v) == Append(d, [k |-> k, v |-> v])

\* a faulty variant: d.setdefault(k, v), the first entry of a key is kept
DictSet_first_kept(d, k, v) ==
    IF k \in {d[i].k : i \in 1..Len(d)} THEN d
    ELSE Append(d, [k |-> k, v |-> v])

\* d[k] = v: an existing key keeps its place
DictSet(d, k, v) ==
    IF DictHas(d, k)
    THEN [i \in 1..Len(d) |-> IF d[i].k = k THEN [k |-> k, v |-> v] ELSE d[i]]
    ELSE Append(d, [k |-> k, v |-> v])

DictValues(d) == [i \in 1..Len(d) |-> d[i].v]

\* dict.get(name, default) on the fields of a JSON object
Get(data, name, default) ==
    IF name \in DOMAIN data.f THEN data.f[name] ELSE default

(***************************************************************************)
(* The static lookup tables: lines 103-173.                                *)
(***************************************************************************)
Unknown == <<"U", "n", "k", "n", "o", "w", "n">>

EQUIP_TYPES ==
       (1 :> <<"D", "D", " ", "G", "u", "n">>)
    @@ (2 :> <<"C", "L", " ", "G", "u", "n">>)
    @@ (3 :> <<"C", "A", " ", "G", "u", "n">>)
    @@ (4 :> <<"B", "B", " ", "G", "u", "n">>)
    @@ (5 :> <<"T", "o", "r", "p", "e", "d", "o">>)
    @@ (6 :> <<"A", "A", " ", "G", "u", "n">>)
    @@ (7 :> <<"F", "i", "g", "h", "t", "e", "r">>)
    @@ (8 :> <<"T", "o", "r", "p", "e", "d", "o", " ", "B", "o", "m", "b", "e", "r">>)
    @@ (9 :> <<"D", "i", "v", "e", " ", "B", "o", "m", "b", "e", "r">>)
    @@ (10 :> <<"A", "u", "x", "i", "l", "i", "a", "r", "y">>)
    @@ (11 :> <<"C", "B", " ", "G", "u", "n">>)
    @@ (12 :> <<"S", "e", "a", "p", "l", "a", "n", "e">>)
    @@ (13 :> <<"S", "u", "b", "m", "a", "r", "i", "n", "e", " ", "T", "o", "r", "p", "e", "d", "o">>)
    @@ (14 :> <<"D", "e", "p", "t", "h", " ", "C", "h", "a", "r", "g", "e">>)
    @@ (15 :> <<"A", "n", "t", "i", "-", "S", "u", "b", "m", "a", "r", "i", "n", "e", " ", "A", "i", "r", "c", "r", "a", "f", "t">>)
    @@ (17 :> <<"H", "e", "l", "i", "c", "o", "p", "t", "e", "r">>)
    @@ (18 :> <<"G", "o", "o", "d", "s">>)

SHIP_TYPES ==
       (1 :> <<"D", "e", "s", "t", "r", "o", "y", "e", "r">>)
    @@ (2 :> <<"L", "i", "g", "h", "t", " ", "C", "r", "u", "i", "s", "e", "r">>)
    @@ (3 :> <<"H", "e", "a", "v", "y", " ", "C", "r", "u", "i", "s", "e", "r">>)
    @@ (4 :> <<"B", "a", "t", "t", "l", "e", "c", "r", "u", "i", "s", "e", "r">>)
    @@ (5 :> <<"B", "a", "t", "t", "l", "e", "s", "h", "i", "p">>)
    @@ (6 :> <<"L", "i", "g", "h", "t", " ", "C", "a", "r", "r", "i", "e", "r">>)
    @@ (7 :> <<"A", "i", "r", "c", "r", "a", "f", "t", " ", "C", "a", "r", "r", "i", "e", "r">>)
    @@ (8 :> <<"S", "u", "b", "m", "a", "r", "i", "n", "e">>)
    @@ (9 :> <<"A", "v", "i", "a", "t", "i", "o", "n", " ", "C", "r", "u", "i", "s", "e", "r">>)
    @@ (10 :> <<"A", "v", "i", "a", "t", "i", "o", "n", " ", "B", "a", "t", "t", "l", "e", "s", "h", "i", "p">>)
    @@ (11 :> <<"T", "o", "r", "p", "e", "d", "o", " ", "C", "r", "u", "i", "s", "e", "r">>)
    @@ (12 :> <<"R", "e", "p", "a", "i", "r", " ", "S", "h", "i", "p">>)
    @@ (13 :> <<"M", "o", "n", "i", "t", "o", "r">>)
    @@ (17 :> <<"S", "u", "b", "m", "a", "r", "i", "n", "e", " ", "C", "a", "r", "r", "i", "e", "r">>)
    @@ (18 :> <<"L", "a", "r", "g", "e", " ", "C", "r", "u", "i", "s", "e", "r">>)
    @@ (19 :> <<"M", "u", "n", "i", "t", "i", "o", "n", " ", "S", "h", "i", "p">>)
    @@ (20 :> <<"M", "i", "s", "s", "i", "l", "e", " ", "D", "e", "s", "t", "r", "o", "y", "e", "r">>)
    @@ (21 :> <<"M", "i", "s", "s", "i", "l", "e", " ", "C", "r", "u", "i", "s", "e", "r">>)
    @@ (22 :> <<"F", "r", "i", "g", "a", "t", "e">>)

NATIONS ==
       (0 :> <<"U", "n", "i", "v", "e", "r", "s", "a", "l">>)
    @@ (1 :> <<"E", "a", "g", "l", "e", " ", "U", "n", "i", "o", "n">>)
    @@ (2 :> <<"R", "o", "y", "a", "l", " ", "N", "a", "v", "y">>)
    @@ (3 :> <<"S", "a", "k", "u", "r", "a", " ", "E", "m", "p", "i", "r", "e">>)
    @@ (4 :> <<"I", "r", "o", "n", " ", "B", "l", "o", "o", "d">>)
    @@ (5 :> <<"D", "r", "a", "g", "o", "n", " ", "E", "m", "p", "e", "r", "y">>)
    @@ (6 :> <<"S", "a", "r", "d", "e", "g", "n", "a", " ", "E", "m", "p", "i", "r", "e">>)
    @@ (7 :> <<"N", "o", "r", "t", "h", "e", "r", "n", " ", "P", "a", "r", "l", "i", "a", "m", "e", "n", "t">>)
    @@ (8 :> <<"I", "r", "i", "s", " ", "L", "i", "b", "r", "e">>)
    @@ (9 :> <<"V", "i", "c", "h", "y", "a", " ", "D", "o", "m", "i", "n", "i", "o", "n">>)
    @@ (10 :> <<"I", "r", "i", "s", " ", "O", "r", "t", "h", "o", "d", "o", "x", "y">>)
    @@ (11 :> <<"T", "e", "m", "p", "e", "s", "t", "a">>)
    @@ (12 :> <<"M", "E", "T", "A">>)
    @@ (13 :> <<"U", "n", "k", "n", "o", "w", "n">>)

RARITIES ==
       (1 :> <<"C", "o", "m", "m", "o", "n">>)
    @@ (2 :> <<"R", "a", "r", "e">>)
    @@ (3 :> <<"E", "l", "i", "t", "e">>)
    @@ (4 :> <<"S", "u", "p", "e", "r", " ", "R", "a", "r", "e">>)
    @@ (5 :> <<"U", "l", "t", "r", "a", " ", "R", "a", "r", "e">>)
    @@ (6 :> <<"D", "e", "c", "i", "s", "i", "v", "e">>)

\* a faulty variant: TABLE.get(code, '')
lookup_name_without_sentinel(table, code) ==
    IF code.ty = "int" /\ code.n \in DOMAIN table
    THEN PyStr(table[code.n]) ELSE PyStr(<<>>)

\* TABLE.get(code, 'Unknown'), where the code is hashable
lookup_name(table, code) ==
    IF code.ty = "int" /\ code.n \in DOMAIN table
    THEN PyStr(table[code.n]) ELSE PyStr(Unknown)

(***************************************************************************)
(* The loader: lines 186-199.  A file of the snapshot is missing, is not   *)
(* JSON, cannot be read, or decodes to a document: a mapping (entries      *)
(* [key, val] in document order, keys distinct) or something else (a       *)
(* non-empty JSON list that holds no key).                                 *)
(***************************************************************************)
MissingFile == [kind |-> "missing", ismap |-> FALSE, entries |-> <<>>]
MalformedFile == [kind |-> "malformed", ismap |-> FALSE, entries |-> <<>>]
UnreadableFile == [kind |-> "unreadable", ismap |-> FALSE, entries |-> <<>>]
JsonFile(entries) == [kind |-> "ok", ismap |-> TRUE, entries |-> entries]
JsonListFile == [kind |-> "ok", ismap |-> FALSE, entries |-> <<>>]

\* the body of the try statement, lines 190-194
try_read(file) ==
    CASE file.kind = "missing" ->
            [exc |-> "", returned |-> FALSE, ismap |-> FALSE, entries |-> <<>>]
      [] file.kind = "malformed" ->
            [exc |-> "JSONDecodeError", returned |-> FALSE, ismap |-> FALSE,
             entries |-> <<>>]
      [] file.kind = "unreadable" ->
            [exc |-> "OSError", returned |-> FALSE, ismap |-> FALSE,
             entries |-> <<>>]
      [] OTHER ->
            [exc |-> "", returned |-> TRUE, ismap |-> file.ismap,
             entries |-> file.entries]

\* what load_json hands back: raised, or a document and the diagnostic printed
Loaded(ismap, entries, diag) ==
    [loaded |-> TRUE, raised |-> FALSE, ismap |-> ismap, entries |-> entries,
     diag |-> diag]
LoadRaised(exc) ==
    [loaded |-> TRUE, raised |-> TRUE, ismap |-> FALSE, entries |-> <<>>,
     diag |-> exc]
NotLoaded ==
    [loaded |-> FALSE, raised |-> FALSE, ismap |-> FALSE, entries |-> <<>>,
     diag |-> ""]

\* a faulty variant: without the handler of line 197
load_json_without_catch_all(file) ==
    LET r == try_read(file)
    IN  IF r.exc = "JSONDecodeError" THEN Loaded(TRUE, <<>>, "Error: Invalid JSON")
        ELSE IF r.exc # "" THEN LoadRaised(r.exc)
        ELSE IF r.returned THEN Loaded(r.ismap, r.entries, "")
        ELSE Loaded(TRUE, <<>>, "Warning: not found")

\* load_json(filename), lines 186-199
load_json(file) ==
    LET r == try_read(file)
    IN  IF r.exc = "JSONDecodeError" THEN Loaded(TRUE, <<>>, "Error: Invalid JSON")
        ELSE IF r.exc # "" THEN Loaded(TRUE, <<>>, "Error loading")
        ELSE IF r.returned THEN Loaded(r.ismap, r.entries, "")
        ELSE Loaded(TRUE, <<>>, "Warning: not found")

\* key in table, table[key], for what load_json returned (a list that holds
\* no key contains none)
DocKeys(doc) == {doc.entries[i].key : i \in 1..Len(doc.entries)}
DocHas(doc, key) == doc.ismap /\ key \in DocKeys(doc)
DocGet(doc, key) ==
    doc.entries[CHOOSE i \in 1..Len(doc.entries) : doc.entries[i].key = key].val

\* a faulty variant: "table is not None" in place of bool(table)
DocTruthy_not_none(doc) == TRUE

\* bool(table)
DocTruthy(doc) == ~doc.ismap \/ doc.entries # <<>>

(***************************************************************************)
(* The entities: lines 15-98, and their construction.                      *)
(***************************************************************************)
EmptyList == PyList(<<>>)
EmptyStr == PyStr(<<>>)

\* Equipment(...), lines 212-230: the entity, and whether building it raised
\* (a key that is no integer, a record that is no dict, an unhashable type)
make_equipment(equip_id, data) ==
    [raised |-> \/ ~int_ok(equip_id)
                \/ data.ty # "dict"
                \/ ~Hashable(Get(data, "type", PyInt(0))),
     entity |->
        [id |-> PyInt(IF int_ok(equip_id) THEN int_of(equip_id) ELSE 0),
         name |-> Get(data, "name", PyStr(Unknown)),
         type |-> Get(data, "type", PyInt(0)),
         type_name |-> lookup_name(EQUIP_TYPES, Get(data, "type", PyInt(0))),
         rarity |-> Get(data, "rarity", PyInt(1)),
         nationality |-> Get(data, "nationality", PyInt(0)),
         tech |-> Get(data, "tech", PyInt(0)),
         damage |-> EmptyList,
         reload |-> EmptyList,
         armor_modifiers |-> EmptyList,
         ammo_type |-> Get(data, "ammo", PyInt(0)),
         weapon_ids |-> Get(data, "weapon_id", EmptyList),
         equip_parameters |-> Get(data, "equip_parameters", PyDict(<<>>)),
         property_rate |-> Get(data, "property_rate", EmptyList),
         value_2 |-> Get(data, "value_2", PyInt(0)),
         value_3 |-> Get(data, "value_3", PyInt(0)),
         description |-> Get(data, "descrip", EmptyStr),
         speciality |-> Get(data, "speciality", EmptyStr),
         part_main |-> Get(data, "part_main", EmptyList),
         part_sub |-> Get(data, "part_sub", EmptyList)]]

\* lines 232-237: the template's damage, reload and armor_modifiers
with_template(equip, equip_id, equip_templates) ==
    IF DocHas(equip_templates, equip_id)
    THEN LET template == DocGet(equip_templates, equip_id)
         IN  [raised |-> template.ty # "dict",
              entity |-> [equip EXCEPT
                  !.damage = Get(template, "damage", EmptyList),
                  !.reload = Get(template, "reload", EmptyList),
                  !.armor_modifiers = Get(template, "armor_modifiers", EmptyList)]]
    ELSE [raised |-> FALSE, entity |-> equip]

\* the loop of lines 210-242: the collection and the errors printed
RECURSIVE equipment_loop(_, _, _, _)
equipment_loop(entries, equip_templates, coll, errors) ==
    IF entries = <<>> THEN [coll |-> coll, errors |-> errors]
    ELSE LET e == Head(entries)
             made == make_equipment(e.key, e.val)
             r == IF made.raised THEN made
                  ELSE with_template(made.entity, e.key, equip_templates)
         IN  IF r.raised
             THEN equipment_loop(Tail(entries), equip_templates, coll,
                                 Append(errors, e.key))
             ELSE equipment_loop(Tail(entries), equip_templates,
                                 DictSet(coll, int_of(e.key), r.entity), errors)

\* parse_equipment, lines 201-244: .items() raises on a table that is no
\* mapping; the count printed is the size of the collection
parse_equipment(equip_stats, equip_templates, coll) ==
    IF ~equip_stats.ismap
    THEN [raised |-> TRUE, coll |-> coll, errors |-> <<>>, count |-> -1]
    ELSE LET r == equipment_loop(equip_stats.entries, equip_templates, coll, <<>>)
         IN  [raised |-> FALSE, coll |-> r.coll, errors |-> r.errors,
              count |-> Len(r.coll)]

\* a faulty variant: the last element of the vector is never read
stat_at_one_short(attrs, i) ==
    CASE attrs.ty = "list" -> IF Len(attrs.l) > i + 1 THEN attrs.l[i + 1] ELSE PyInt(0)
      [] attrs.ty = "str" -> IF Len(attrs.s) > i + 1 THEN PyStr(<<attrs.s[i + 1]>>)
                             ELSE PyInt(0)
      [] OTHER -> PyInt(0)

\* attrs[i] if len(attrs) > i else 0, lines 271-294 (i counts from 0): a
\* list gives its element, a str its character, an empty dict 0
stat_at(attrs, i) ==
    CASE attrs.ty = "list" -> IF Len(attrs.l) > i THEN attrs.l[i + 1] ELSE PyInt(0)
      [] attrs.ty = "str" -> IF Len(attrs.s) > i THEN PyStr(<<attrs.s[i + 1]>>)
                             ELSE PyInt(0)
      [] OTHER -> PyInt(0)

\* len(attrs) or attrs[i] raises: no len (an int, null), or a dict with
\* fields (its keys are no integers)
stat_raises(attrs) ==
    \/ attrs.ty \in {"int", "none"}
    \/ attrs.ty = "dict" /\ DOMAIN attrs.f # {}

ZeroStats == PyList([i \in 1..12 |-> PyInt(0)])

\* Ship(...), lines 255-300
make_ship(ship_id, data) ==
    LET attrs == Get(data, "attrs", ZeroStats)
        attrs_growth == Get(data, "attrs_growth", ZeroStats)
    IN
    [raised |-> \/ ~int_ok(ship_id)
                \/ data.ty # "dict"
                \/ ~Hashable(Get(data, "type", PyInt(0)))
                \/ stat_raises(attrs)
                \/ stat_raises(attrs_growth),
     entity |->
        [id |-> PyInt(IF int_ok(ship_id) THEN int_of(ship_id) ELSE 0),
         name |-> Get(data, "name", PyStr(Unknown)),
         english_name |-> Get(data, "english_name", EmptyStr),
         type |-> Get(data, "type", PyInt(0)),
         type_name |-> lookup_name(SHIP_TYPES, Get(data, "type", PyInt(0))),
         nationality |-> Get(data, "nationality", PyInt(0)),
         rarity |-> Get(data, "rarity", PyInt(1)),
         star |-> Get(data, "star", PyInt(1)),
         armor_type |-> Get(data, "armor_type", PyInt(1)),
         hp |-> stat_at(attrs, 0),
         firepower |-> stat_at(attrs, 1),
         torpedo |-> stat_at(attrs, 2),
         antiair |-> stat_at(attrs, 3),
         aviation |-> stat_at(attrs, 4),
         reload |-> stat_at(attrs, 5),
         armor |-> stat_at(attrs, 6),
         hit |-> stat_at(attrs, 7),
         evasion |-> stat_at(attrs, 8),
         speed |-> stat_at(attrs, 9),
         luck |-> stat_at(attrs, 10),
         antisub |-> stat_at(attrs, 11),
         hp_growth |-> stat_at(attrs_growth, 0),
         firepower_growth |-> stat_at(attrs_growth, 1),
         torpedo_growth |-> stat_at(attrs_growth, 2),
         antiair_growth |-> stat_at(attrs_growth, 3),
         aviation_growth |-> stat_at(attrs_growth, 4),
         reload_growth |-> stat_at(attrs_growth, 5),
         armor_growth |-> stat_at(attrs_growth, 6),
         hit_growth |-> stat_at(attrs_growth, 7),
         evasion_growth |-> stat_at(attrs_growth, 8),
         antisub_growth |-> stat_at(attrs_growth, 11),
         equipment_proficiency |-> Get(data, "equipment_proficiency", EmptyList),
         base_list |-> Get(data, "base_list", EmptyList),
         preload_count |-> Get(data, "preload_count", EmptyList)]]

\* the loop of lines 253-305; ship_templates is loaded and never read
RECURSIVE ship_loop(_, _, _)
ship_loop(entries, coll, errors) ==
    IF entries = <<>> THEN [coll |-> coll, errors |-> errors]
    ELSE LET e == Head(entries)
             r == make_ship(e.key, e.val)
         IN  IF r.raised
             THEN ship_loop(Tail(entries), coll, Append(errors, e.key))
             ELSE ship_loop(Tail(entries),
                            DictSet(coll, int_of(e.key), r.entity), errors)

\* parse_ships, lines 246-307
parse_ships(ship_stats, ship_templates, coll) ==
    IF ~ship_stats.ismap
    THEN [raised |-> TRUE, coll |-> coll, errors |-> <<>>, count |-> -1]
    ELSE LET r == ship_loop(ship_stats.entries, coll, <<>>)
         IN  [raised |-> FALSE, coll |-> r.coll, errors |-> r.errors,
              count |-> Len(r.coll)]

\* line 315: {int(k): v for k, v in weapon_names.items() if k.isdigit()};
\* int raises on a digit that is no decimal digit
RECURSIVE weapon_name_map(_, _)
weapon_name_map(entries, acc) ==
    IF entries = <<>> THEN [raised |-> FALSE, names |-> acc]
    ELSE LET e == Head(entries)
         IN  IF ~isdigit(e.key) THEN weapon_name_map(Tail(entries), acc)
             ELSE IF ~int_ok(e.key) THEN [raised |-> TRUE, names |-> acc]
             ELSE weapon_name_map(Tail(entries),
                                  DictSet(acc, int_of(e.key), e.val))

\* a faulty variant: id=weapon_id, the key as it is in the table
make_weapon_id_unparsed(weapon_id, data, names) ==
    [raised |-> ~int_ok(weapon_id) \/ data.ty # "dict",
     entity |->
        [id |-> PyStr(weapon_id),
         name |-> IF int_ok(weapon_id) /\ DictHas(names, int_of(weapon_id))
                  THEN DictGet(names, int_of(weapon_id)) ELSE EmptyStr,
         damage |-> Get(data, "damage", PyInt(0)),
         reload_max |-> Get(data, "reload_max", PyInt(0)),
         bullet_id |-> Get(data, "bullet_ID", PyInt(0)),
         barrage_id |-> Get(data, "barrage_ID", PyInt(0)),
         spawn_bound |-> Get(data, "spawn_bound", EmptyStr),
         fire_fx |-> Get(data, "fire_fx", EmptyStr),
         type |-> Get(data, "type", PyInt(0)),
         range |-> Get(data, "range", PyInt(0)),
         angle |-> Get(data, "angle", PyInt(0)),
         min_range |-> Get(data, "min_range", PyInt(0)),
         aim_type |-> Get(data, "aim_type", PyInt(0))]]

\* Weapon(...), lines 325-339
make_weapon(weapon_id, data, names) ==
    [raised |-> ~int_ok(weapon_id) \/ data.ty # "dict",
     entity |->
        [id |-> PyInt(IF int_ok(weapon_id) THEN int_of(weapon_id) ELSE 0),
         name |-> IF int_ok(weapon_id) /\ DictHas(names, int_of(weapon_id))
                  THEN DictGet(names, int_of(weapon_id)) ELSE EmptyStr,
         damage |-> Get(data, "damage", PyInt(0)),
         reload_max |-> Get(data, "reload_max", PyInt(0)),
         bullet_id |-> Get(data, "bullet_ID", PyInt(0)),
         barrage_id |-> Get(data, "barrage_ID", PyInt(0)),
         spawn_bound |-> Get(data, "spawn_bound", EmptyStr),
         fire_fx |-> Get(data, "fire_fx", EmptyStr),
         type |-> Get(data, "type", PyInt(0)),
         range |-> Get(data, "range", PyInt(0)),
         angle |-> Get(data, "angle", PyInt(0)),
         min_range |-> Get(data, "min_range", PyInt(0)),
         aim_type |-> Get(data, "aim_type", PyInt(0))]]

\* the loop of lines 323-343
RECURSIVE weapon_loop(_, _, _, _)
weapon_loop(entries, names, coll, errors) ==
    IF entries = <<>> THEN [coll |-> coll, errors |-> errors]
    ELSE LET e == Head(entries)
             r == make_weapon(e.key, e.val, names)
         IN  IF r.raised
             THEN weapon_loop(Tail(entries), names, coll, Append(errors, e.key))
             ELSE weapon_loop(Tail(entries), names,
                              DictSet(coll, int_of(e.key), r.entity), errors)

\* parse_weapons, lines 309-345, given what load_json returned for
\* weapon_name.json and weapon_property.json and would return for
\* bullet_template.json: stage tells how far it got
parse_weapons(name_doc, property_doc, bullet_doc, old_names, coll) ==
    LET names == weapon_name_map(name_doc.entries, <<>>)
        fallback == ~DocTruthy(property_doc)
        weapon_data == IF fallback THEN bullet_doc ELSE property_doc
        r == weapon_loop(weapon_data.entries, names.names, coll, <<>>)
    IN  IF ~name_doc.ismap \/ names.raised
        THEN [raised |-> TRUE, stage |-> "names", fallback |-> FALSE,
              names |-> old_names, coll |-> coll, errors |-> <<>>, count |-> -1]
        ELSE IF ~weapon_data.ismap
        THEN [raised |-> TRUE, stage |-> "items", fallback |-> fallback,
              names |-> names.names, coll |-> coll, errors |-> <<>>,
              count |-> -1]
        ELSE [raised |-> FALSE, stage |-> "done", fallback |-> fallback,
              names |-> names.names, coll |-> r.coll, errors |-> r.errors,
              count |-> Len(r.coll)]

(***************************************************************************)
(* sorted(): a stable sort on tuples of ints.  Over the snapshots of the   *)
(* model every sort key (type, rarity, tech, id, hp) is an int; a key of   *)
(* another type among two or more entities is taken to raise TypeError.    *)
(***************************************************************************)
RECURSIVE TupleLess(_, _)
TupleLess(a, b) ==
    IF a = <<>> \/ b = <<>> THEN FALSE
    ELSE IF Head(a) # Head(b) THEN Head(a) < Head(b)
    ELSE TupleLess(Tail(a), Tail(b))

\* the place of a new pair in an ascending run: behind every pair that is
\* not greater
RECURSIVE InsertAscending(_, _)
InsertAscending(run, p) ==
    IF run = <<>> THEN <<p>>
    ELSE IF TupleLess(p.key, Head(run).key) THEN <<p>> \o run
    ELSE <<Head(run)>> \o InsertAscending(Tail(run), p)

\* with reverse=True: behind every pair that is not smaller
RECURSIVE InsertDescending(_, _)
InsertDescending(run, p) ==
    IF run = <<>> THEN <<p>>
    ELSE IF TupleLess(Head(run).key, p.key) THEN <<p>> \o run
    ELSE <<Head(run)>> \o InsertDescending(Tail(run), p)

RECURSIVE SortAscending(_, _)
SortAscending(pairs, run) ==
    IF pairs = <<>> THEN run
    ELSE SortAscending(Tail(pairs), InsertAscending(run, Head(pairs)))

RECURSIVE SortDescending(_, _)
SortDescending(pairs, run) ==
    IF pairs = <<>> THEN run
    ELSE SortDescending(Tail(pairs), InsertDescending(run, Head(pairs)))

AllInts(values) == \A i \in 1..Len(values) : values[i].ty = "int"

\* sorted(items, key=...) and sorted(items, key=..., reverse=True), the keys
\* given as one tuple of values per item
sorted_by(items, keys) ==
    LET pairs == [i \in 1..Len(items) |->
                     [key |-> [j \in 1..Len(keys[i]) |-> keys[i][j].n],
                      item |-> items[i]]]
        run == SortAscending(pairs, <<>>)
    IN  [i \in 1..Len(run) |-> run[i].item]
\* a faulty variant: sorted(items, key=...)[::-1], which turns round the
\* items of equal keys as well
sorted_by_then_reversed(items, keys) ==
    LET run == sorted_by(items, keys)
    IN  [i \in 1..Len(run) |-> run[Len(run) + 1 - i]]
sorted_by_reversed(items, keys) ==
    LET pairs == [i \in 1..Len(items) |->
                     [key |-> [j \in 1..Len(keys[i]) |-> keys[i][j].n],
                      item |-> items[i]]]
        run == SortDescending(pairs, <<>>)
    IN  [i \in 1..Len(run) |-> run[i].item]
sort_raises(keys) ==
    Len(keys) >= 2 /\ \E i \in 1..Len(keys) : ~AllInts(keys[i])

FirstN(s, n) == SubSeq(s, 1, IF Len(s) < n THEN Len(s) ELSE n)

(***************************************************************************)
(* The aggregator: lines 347-413.                                          *)
(***************************************************************************)
TopEquipmentCount == 5
TopShipCount == 3

\* defaultdict(list) filled in the order of the collection, lines 354-356
RECURSIVE group_by_type(_, _)
group_by_type(entities, groups) ==
    IF entities = <<>> THEN groups
    ELSE LET e == Head(entities)
             members == IF DictHas(groups, e.type_name.s)
                        THEN DictGet(groups, e.type_name.s) ELSE <<>>
         IN  group_by_type(Tail(entities),
                           DictSet(groups, e.type_name.s, Append(members, e)))

EquipRankKeys(items) == [i \in 1..Len(items) |-> <<items[i].rarity, items[i].tech>>]
ShipRankKeys(items) == [i \in 1..Len(items) |-> <<items[i].rarity, items[i].hp>>]

\* line 364
top_equipment(items) ==
    FirstN(sorted_by_reversed(items, EquipRankKeys(items)), TopEquipmentCount)
\* line 407
top_ships(items) ==
    FirstN(sorted_by_reversed(items, ShipRankKeys(items)), TopShipCount)

\* lines 366-375 raise for a listed item: an unhashable code, weapon_ids
\* that cannot be indexed with 0, an unhashable first weapon id
equipment_lines_raise(item) ==
    \/ ~Hashable(item.rarity)
    \/ ~Hashable(item.nationality)
    \/ /\ Truthy(item.weapon_ids)
       /\ \/ item.weapon_ids.ty \in {"int", "dict"}
          \/ item.weapon_ids.ty = "list" /\ ~Hashable(item.weapon_ids.l[1])

\* analyze_equipment_stats, lines 347-375: what it prints per type (the
\* order of the types, by name, is not modelled), or that it raised
analyze_equipment_stats(coll) ==
    LET groups == group_by_type(DictValues(coll), <<>>)
    IN  [raised |-> \E g \in 1..Len(groups) :
                        \/ sort_raises(EquipRankKeys(groups[g].v))
                        \/ \E i \in 1..Len(top_equipment(groups[g].v)) :
                              equipment_lines_raise(top_equipment(groups[g].v)[i]),
         report |-> {[type_name |-> groups[g].k,
                      count |-> Len(groups[g].v),
                      top |-> [i \in 1..Len(top_equipment(groups[g].v)) |->
                                  top_equipment(groups[g].v)[i].id.n]]
                     : g \in 1..Len(groups)}]

\* sum(s.hp for s in ships) and the like raise on a stat that is no number
averages_raise(members) ==
    \E i \in 1..Len(members) :
        ~AllInts(<<members[i].hp, members[i].firepower, members[i].torpedo,
                   members[i].antiair>>)

\* analyze_ship_stats, lines 377-413
analyze_ship_stats(coll) ==
    LET groups == group_by_type(DictValues(coll), <<>>)
    IN  [raised |-> \E g \in 1..Len(groups) :
                        \/ averages_raise(groups[g].v)
                        \/ sort_raises(ShipRankKeys(groups[g].v))
                        \/ \E i \in 1..Len(top_ships(groups[g].v)) :
                              \/ ~Hashable(top_ships(groups[g].v)[i].rarity)
                              \/ ~Hashable(top_ships(groups[g].v)[i].nationality),
         report |-> {[type_name |-> groups[g].k,
                      count |-> Len(groups[g].v),
                      top |-> [i \in 1..Len(top_ships(groups[g].v)) |->
                                  top_ships(groups[g].v)[i].id.n]]
                     : g \in 1..Len(groups)}]

(***************************************************************************)
(* The exporter: lines 415-554.  A CSV file is the sequence of its rows,   *)
(* a row the sequence of the texts of its cells, as a CSV reader gives     *)
(* them back.                                                              *)
(***************************************************************************)
FormulaTriggers == {"=", "+", "-", "@", "\t", "\r"}

\* a faulty variant: tab and carriage return are let through
sanitize_csv_field_four_triggers(value) ==
    IF value.ty = "str" /\ value.s # <<>> /\ Head(value.s) \in {"=", "+", "-", "@"}
    THEN PyStr(<<"'">> \o value.s)
    ELSE PyStr(py_str(value))

\* sanitize_csv_field, lines 415-420
sanitize_csv_field(value) ==
    IF value.ty = "str" /\ value.s # <<>> /\ Head(value.s) \in FormulaTriggers
    THEN PyStr(<<"'">> \o value.s)
    ELSE PyStr(py_str(value))

\* the text csv.DictWriter writes for a value: '' for None, str(v) otherwise
csv_text(v) == IF v.ty = "none" THEN <<>> ELSE py_str(v)

\* ','.join(map(str, weapon_ids)), line 448: a list gives its elements, a
\* str its characters; an int or None is not iterable
join_raises(weapon_ids) == weapon_ids.ty \in {"int", "none"}
joined_ids(weapon_ids) ==
    CASE weapon_ids.ty = "list" ->
            Join(<<",">>, [i \in 1..Len(weapon_ids.l) |-> py_str(weapon_ids.l[i])])
      [] weapon_ids.ty = "str" ->
            Join(<<",">>, [i \in 1..Len(weapon_ids.s) |-> <<weapon_ids.s[i]>>])
      [] OTHER -> <<>>

EquipFieldnames ==
    <<<<"i", "d">>, <<"n", "a", "m", "e">>, <<"t", "y", "p", "e", "_", "n", "a", "m", "e">>, <<"r", "a", "r", "i", "t", "y">>, <<"n", "a", "t", "i", "o", "n", "a", "l", "i", "t", "y">>, <<"t", "e", "c", "h">>,
      <<"w", "e", "a", "p", "o", "n", "_", "i", "d", "s">>, <<"d", "e", "s", "c", "r", "i", "p", "t", "i", "o", "n">>, <<"s", "p", "e", "c", "i", "a", "l", "i", "t", "y">>>>
ShipFieldnames ==
    <<<<"i", "d">>, <<"n", "a", "m", "e">>, <<"e", "n", "g", "l", "i", "s", "h", "_", "n", "a", "m", "e">>, <<"t", "y", "p", "e", "_", "n", "a", "m", "e">>, <<"r", "a", "r", "i", "t", "y">>, <<"n", "a", "t", "i", "o", "n", "a", "l", "i", "t", "y">>,
      <<"h", "p">>, <<"f", "i", "r", "e", "p", "o", "w", "e", "r">>, <<"t", "o", "r", "p", "e", "d", "o">>, <<"a", "n", "t", "i", "a", "i", "r">>, <<"a", "v", "i", "a", "t", "i", "o", "n">>, <<"r", "e", "l", "o", "a", "d">>,
      <<"a", "r", "m", "o", "r">>, <<"h", "i", "t">>, <<"e", "v", "a", "s", "i", "o", "n">>, <<"s", "p", "e", "e", "d">>, <<"l", "u", "c", "k">>, <<"a", "n", "t", "i", "s", "u", "b">>>>
WeaponFieldnames ==
    <<<<"i", "d">>, <<"n", "a", "m", "e">>, <<"d", "a", "m", "a", "g", "e">>, <<"r", "e", "l", "o", "a", "d", "_", "m", "a", "x">>, <<"r", "a", "n", "g", "e">>, <<"a", "n", "g", "l", "e">>, <<"t", "y", "p", "e">>>>

\* lines 441-452
equipment_row(equip) ==
    [raised |-> \/ ~Hashable(equip.rarity)
                \/ ~Hashable(equip.nationality)
                \/ join_raises(equip.weapon_ids),
     cells |-> << csv_text(equip.id),
                  csv_text(sanitize_csv_field(equip.name)),
                  csv_text(equip.type_name),
                  csv_text(lookup_name(RARITIES, equip.rarity)),
                  csv_text(lookup_name(NATIONS, equip.nationality)),
                  csv_text(equip.tech),
                  joined_ids(equip.weapon_ids),
                  csv_text(sanitize_csv_field(equip.description)),
                  csv_text(sanitize_csv_field(equip.speciality)) >>]

\* lines 466-486
ship_row(ship) ==
    [raised |-> ~Hashable(ship.rarity) \/ ~Hashable(ship.nationality),
     cells |-> << csv_text(ship.id),
                  csv_text(sanitize_csv_field(ship.name)),
                  csv_text(sanitize_csv_field(ship.english_name)),
                  csv_text(ship.type_name),
                  csv_text(lookup_name(RARITIES, ship.rarity)),
                  csv_text(lookup_name(NATIONS, ship.nationality)),
                  csv_text(ship.hp), csv_text(ship.firepower),
                  csv_text(ship.torpedo), csv_text(ship.antiair),
                  csv_text(ship.aviation), csv_text(ship.reload),
                  csv_text(ship.armor), csv_text(ship.hit),
                  csv_text(ship.evasion), csv_text(ship.speed),
                  csv_text(ship.luck), csv_text(ship.antisub) >>]

\* lines 498-507: weapon.name or f"Weapon_{weapon.id}"
weapon_row(weapon) ==
    [raised |-> FALSE,
     cells |-> << csv_text(weapon.id),
                  csv_text(sanitize_csv_field(
                      IF Truthy(weapon.name) THEN weapon.name
                      ELSE PyStr(<<"W", "e", "a", "p", "o", "n", "_">> \o py_str(weapon.id)))),
                  csv_text(weapon.damage), csv_text(weapon.reload_max),
                  csv_text(weapon.range), csv_text(weapon.angle),
                  csv_text(weapon.type) >>]

\* the rows written before the first row that raises, and whether one did
RECURSIVE written_rows(_, _)
written_rows(rows, done) ==
    IF rows = <<>> THEN [raised |-> FALSE, rows |-> done]
    ELSE IF Head(rows).raised THEN [raised |-> TRUE, rows |-> done]
    ELSE written_rows(Tail(rows), Append(done, Head(rows).cells))

NoFile == [exists |-> FALSE, rows |-> <<>>]
CsvFile(rows) == [exists |-> TRUE, rows |-> rows]

\* one "with open(...)" block, lines 433-452: nothing is written for an
\* empty collection; otherwise the header, then the sorted rows
csv_of(fieldnames, rows, sort_fails) ==
    IF rows = <<>> THEN [raised |-> FALSE, file |-> CsvFile(<<>>)]
    ELSE IF sort_fails THEN [raised |-> TRUE, file |-> CsvFile(<<fieldnames>>)]
    ELSE LET w == written_rows(rows, <<>>)
         IN  [raised |-> w.raised, file |-> CsvFile(<<fieldnames>> \o w.rows)]

EquipSortKeys(es) == [i \in 1..Len(es) |-> <<es[i].type, es[i].rarity, es[i].tech>>]
ShipSortKeys(es) == [i \in 1..Len(es) |-> <<es[i].type, es[i].rarity, es[i].id>>]
WeaponSortKeys(es) == [i \in 1..Len(es) |-> <<es[i].id>>]

equipment_csv(coll) ==
    LET es == DictValues(coll)
        sorted == sorted_by(es, EquipSortKeys(es))
    IN  csv_of(EquipFieldnames,
               [i \in 1..Len(sorted) |-> equipment_row(sorted[i])],
               sort_raises(EquipSortKeys(es)))
ships_csv(coll) ==
    LET es == DictValues(coll)
        sorted == sorted_by(es, ShipSortKeys(es))
    IN  csv_of(ShipFieldnames,
               [i \in 1..Len(sorted) |-> ship_row(sorted[i])],
               sort_raises(ShipSortKeys(es)))
weapons_csv(coll) ==
    LET es == DictValues(coll)
        sorted == sorted_by(es, WeaponSortKeys(es))
    IN  csv_of(WeaponFieldnames,
               [i \in 1..Len(sorted) |-> weapon_row(sorted[i])],
               sort_raises(WeaponSortKeys(es)))

\* export_to_csv, lines 422-508: a directory that cannot be created ends
\* the export without a file and without an exception; an exception in one
\* file's block leaves the later files unwritten
export_to_csv(dir, files, equip_coll, ship_coll, weapon_coll) ==
    LET e == equipment_csv(equip_coll)
        s == ships_csv(ship_coll)
        w == weapons_csv(weapon_coll)
    IN  IF dir = "blocked"
        THEN [raised |-> FALSE, aborted |-> TRUE, files |-> files]
        ELSE IF e.raised
        THEN [raised |-> TRUE, aborted |-> FALSE,
              files |-> [files EXCEPT !.equipment_csv = e.file]]
        ELSE IF s.raised
        THEN [raised |-> TRUE, aborted |-> FALSE,
              files |-> [files EXCEPT !.equipment_csv = e.file,
                                      !.ships_csv = s.file]]
        ELSE [raised |-> w.raised, aborted |-> FALSE,
              files |-> [files EXCEPT !.equipment_csv = e.file,
                                      !.ships_csv = s.file,
                                      !.weapons_csv = w.file]]

\* asdict(entity) with rarity_name and nation_name, lines 517-519
enriched(entity) ==
    [name \in DOMAIN entity \cup {"rarity_name", "nation_name"} |->
        CASE name = "rarity_name" -> lookup_name(RARITIES, entity.rarity)
          [] name = "nation_name" -> lookup_name(NATIONS, entity.nationality)
          [] OTHER -> entity[name]]

\* lines 515-520 and 528-533: type name -> records, both in the order of
\* the collection; the lookups raise on an unhashable code
RECURSIVE grouped_records(_, _)
grouped_records(entities, groups) ==
    IF entities = <<>> THEN groups
    ELSE LET e == Head(entities)
             members == IF DictHas(groups, e.type_name.s)
                        THEN DictGet(groups, e.type_name.s) ELSE <<>>
         IN  grouped_records(Tail(entities),
                 DictSet(groups, e.type_name.s, Append(members, enriched(e))))

grouping_raises(coll) ==
    \E i \in 1..Len(coll) :
        ~Hashable(coll[i].v.rarity) \/ ~Hashable(coll[i].v.nationality)

NoJson == [exists |-> FALSE, doc |-> <<>>]
JsonDoc(doc) == [exists |-> TRUE, doc |-> doc]

\* list(TABLE.values()) of a table whose codes are first..last
TableValues(table, first, last) == [i \in 1..(last - first + 1) |-> table[first + i - 1]]

\* lines 541-549
summary_of(equip_coll, ship_coll, weapon_coll, equip_by_type, ships_by_type) ==
    [total_equipment |-> Len(equip_coll),
     total_ships |-> Len(ship_coll),
     total_weapons |-> Len(weapon_coll),
     equipment_types |-> [i \in 1..Len(equip_by_type) |-> equip_by_type[i].k],
     ship_types |-> [i \in 1..Len(ships_by_type) |-> ships_by_type[i].k],
     nationalities |-> TableValues(NATIONS, 0, 13),
     rarities |-> TableValues(RARITIES, 1, 6)]

\* export_to_json, lines 510-554: os.makedirs is not guarded
export_to_json(dir, files, equip_coll, ship_coll, weapon_coll) ==
    LET equip_by_type == grouped_records(DictValues(equip_coll), <<>>)
        ships_by_type == grouped_records(DictValues(ship_coll), <<>>)
    IN  IF dir = "blocked" \/ grouping_raises(equip_coll)
        THEN [raised |-> TRUE, files |-> files]
        ELSE IF grouping_raises(ship_coll)
        THEN [raised |-> TRUE,
              files |-> [files EXCEPT !.equipment_json = JsonDoc(equip_by_type)]]
        ELSE [raised |-> FALSE,
              files |-> [files EXCEPT
                  !.equipment_json = JsonDoc(equip_by_type),
                  !.ships_json = JsonDoc(ships_by_type),
                  !.summary_json = JsonDoc(summary_of(equip_coll, ship_coll,
                                      weapon_coll, equip_by_type, ships_by_type))]]

(***************************************************************************)
(* The snapshots the parser is run on.                                     *)
(***************************************************************************)
\* most records of one table
MaxRecords == 2

FileNames == {"weapon_name.json", "weapon_property.json", "bullet_template.json",
              "equip_data_statistics.json", "equip_data_template.json",
              "ship_data_statistics.json", "ship_data_template.json"}

\* keys of a table: "1" and "01" name the same ID, "x" names none
TableKeys == {<<"1">>, <<"0", "1">>, <<"2">>, <<"x">>}

EquipExample ==
    PyDict([name |-> PyStr(<<"E", "x", "a", "m", "p", "l", "e">>), type |-> PyInt(1), rarity |-> PyInt(3)])
EquipHostile ==
    PyDict([name |-> PyStr(<<"=", "c", "m", "d">>), type |-> PyInt(99), rarity |-> PyInt(3),
            tech |-> PyInt(2), nationality |-> PyInt(4),
            weapon_id |-> PyList(<<PyInt(-1), PyInt(2)>>),
            descrip |-> PyStr(<<"+", "x">>)])
NotARecord == PyInt(7)

EquipTemplate ==
    PyDict([name |-> PyStr(<<"T", "m", "p", "l">>), rarity |-> PyInt(5),
            damage |-> PyList(<<PyInt(10), PyInt(20)>>)])

ShipShort ==
    PyDict([name |-> PyStr(<<"L", "a", "f", "f", "e", "y">>), type |-> PyInt(1), rarity |-> PyInt(2),
            attrs |-> PyList(<<PyInt(5000), PyInt(100)>>)])
ShipHostile ==
    PyDict([name |-> PyStr(<<"-", "Z">>), english_name |-> PyStr(<<"@", "e">>),
            type |-> PyInt(77), nationality |-> PyInt(99), star |-> PyInt(2),
            attrs |-> PyList([i \in 1..12 |-> PyInt(i)]),
            attrs_growth |-> PyList([i \in 1..12 |-> PyInt(100 * i)])])
ShipNoStats == PyDict([name |-> PyStr(<<"B", "a", "d">>), attrs |-> PyNone])

ShipTemplate == PyDict([star |-> PyInt(3), name |-> PyStr(<<"T", "m", "p", "l">>)])

WeaponGun ==
    PyDict([damage |-> PyInt(10), reload_max |-> PyInt(100), range |-> PyInt(50),
            type |-> PyInt(1)])
WeaponBare == PyDict(<<>>)


\* every state of one table's file: no mapping, or a mapping of at most
\* MaxRecords records under distinct keys
TableFiles(records) ==
    {MissingFile, MalformedFile, UnreadableFile, JsonListFile}
        \cup {JsonFile(s) :
                 s \in UNION {{t \in [1..n -> [key : TableKeys, val : records]] :
                                  \A i, j \in 1..n : i # j => t[i].key # t[j].key}
                              : n \in 0..MaxRecords}}

\* one plain record under the key "1", or no file
PlainOrMissing(plain, val) ==
    IF plain THEN JsonFile(<<[key |-> <<"1">>, val |-> val]>>) ELSE MissingFile

Snapshot(wn, wp, bt, es, et, ss, st) ==
    [name \in FileNames |->
        CASE name = "weapon_name.json" -> wn
          [] name = "weapon_property.json" -> wp
          [] name = "bullet_template.json" -> bt
          [] name = "equip_data_statistics.json" -> es
          [] name = "equip_data_template.json" -> et
          [] name = "ship_data_statistics.json" -> ss
          [] OTHER -> st]

\* the snapshots: every state of the tables of one entity type, the other
\* types' tables plain or missing; bullet_template.json is there whenever
\* weapon_property.json has records
Snapshots ==
    {Snapshot(PlainOrMissing(o, PyStr(<<"G", "u", "n">>)), PlainOrMissing(o, WeaponGun),
              MissingFile, es, et, MissingFile, MissingFile) :
        o \in BOOLEAN, es \in TableFiles({EquipExample, EquipHostile, NotARecord}),
        et \in {MissingFile,
                JsonFile(<<[key |-> <<"1">>, val |-> EquipTemplate]>>),
                JsonFile(<<[key |-> <<"1">>, val |-> NotARecord],
                           [key |-> <<"2">>, val |-> EquipTemplate]>>)}}
    \cup
    {Snapshot(MissingFile, MissingFile, MissingFile,
              PlainOrMissing(o, EquipExample), MissingFile, ss, st) :
        o \in BOOLEAN, ss \in TableFiles({ShipShort, ShipHostile, ShipNoStats}),
        st \in {MissingFile, JsonFile(<<[key |-> <<"1">>, val |-> ShipTemplate]>>)}}
    \cup
    {Snapshot(wn, p[1], p[2], MissingFile, MissingFile, MissingFile, MissingFile) :
        wn \in {MissingFile,
                JsonFile(<<[key |-> <<"1">>, val |-> PyStr(<<"G", "u", "n">>)],
                           [key |-> <<"0", "1">>, val |-> PyStr(<<"=", "H", "Y", "P", "E", "R", "L", "I", "N", "K">>)]>>),
                JsonFile(<<[key |-> <<SuperscriptTwo>>, val |-> PyStr(<<"G", "u", "n">>)]>>),
                JsonListFile},
        p \in {q \in TableFiles({WeaponGun, WeaponBare, NotARecord})
                    \X {MissingFile, JsonFile(<<[key |-> <<"2">>, val |-> WeaponGun]>>)} :
                  DocTruthy(load_json(q[1])) => q[2] # MissingFile}}

(***************************************************************************)
(* AzurLaneDataParser.run(), lines 556-580, one action per call.           *)
(***************************************************************************)
NoFiles ==
    [equipment_csv |-> NoFile, ships_csv |-> NoFile, weapons_csv |-> NoFile,
     equipment_json |-> NoJson, ships_json |-> NoJson, summary_json |-> NoJson]

\* nothing printed yet: no count (-1), no error, no report
SilentConsole ==
    [parsed |-> [e \in {"weapons", "equipment", "ships"} |-> -1],
     errors |-> [e \in {"weapons", "equipment", "ships"} |-> <<>>],
     notices |-> {},
     equipment_report |-> {},
     ship_report |-> {},
     raised_in |-> ""]

\* no call of sanitize_csv_field on its own
NoValue == [ty |-> "unset", n |-> 0, s |-> <<>>, l |-> <<>>, f |-> <<>>]
SanitizeIdle == field_value = NoValue /\ field_result = NoValue

\* the parser after __init__, lines 175-184, in front of a snapshot
ParserInit(snapshot, dir) ==
    /\ disk = snapshot
    /\ outdir = dir
    /\ pc = "start"
    /\ loaded = [name \in FileNames |-> NotLoaded]
    /\ weapon_names = <<>>
    /\ weapons = <<>>
    /\ equipment = <<>>
    /\ ships = <<>>
    /\ console = SilentConsole
    /\ out_files = NoFiles

\* self.parse_weapons(), line 562
ParseWeapons ==
    /\ pc = "start"
    /\ LET wn == load_json(disk["weapon_name.json"])
           wp == load_json(disk["weapon_property.json"])
           bt == load_json(disk["bullet_template.json"])
           r == parse_weapons(wn, wp, bt, weapon_names, weapons)
       IN  /\ loaded' = [loaded EXCEPT
                  !["weapon_name.json"] = wn,
                  !["weapon_property.json"] =
                      IF r.stage = "names" THEN @ ELSE wp,
                  !["bullet_template.json"] =
                      IF r.stage # "names" /\ r.fallback THEN bt ELSE @]
           /\ weapon_names' = r.names
           /\ weapons' = r.coll
           /\ pc' = IF r.raised THEN "crashed" ELSE "weapons_parsed"
           /\ console' = [console EXCEPT
                  !.parsed["weapons"] = r.count,
                  !.errors["weapons"] = r.errors,
                  !.notices = IF r.fallback THEN @ \cup {"using bullet_template"}
                              ELSE @,
                  !.raised_in = IF r.raised THEN "parse_weapons" ELSE @]
    /\ UNCHANGED <<disk, outdir, equipment, ships, out_files, progress_vars,
                   sanitize_vars, equipment_files, main_vars>>

\* self.parse_equipment(), line 563
ParseEquipment ==
    /\ pc = "weapons_parsed"
    /\ LET es == load_json(disk["equip_data_statistics.json"])
           et == load_json(disk["equip_data_template.json"])
           r == parse_equipment(es, et, equipment)
           raised == es.raised \/ et.raised \/ r.raised
       IN  /\ loaded' = [loaded EXCEPT
                  !["equip_data_statistics.json"] = es,
                  !["equip_data_template.json"] = IF es.raised THEN @ ELSE et]
           /\ equipment' = IF raised THEN equipment ELSE r.coll
           /\ pc' = IF raised THEN "crashed" ELSE "equipment_parsed"
           /\ console' = [console EXCEPT
                  !.parsed["equipment"] = IF raised THEN @ ELSE r.count,
                  !.errors["equipment"] = IF raised THEN @ ELSE r.errors,
                  !.raised_in = IF raised THEN "parse_equipment" ELSE @]
    /\ UNCHANGED <<disk, outdir, weapon_names, weapons, ships, out_files,
                   progress_vars,
                   sanitize_vars, equipment_files, main_vars>>

\* self.parse_ships(), line 564
ParseShips ==
    /\ pc = "equipment_parsed"
    /\ LET ss == load_json(disk["ship_data_statistics.json"])
           st == load_json(disk["ship_data_template.json"])
           r == parse_ships(ss, st, ships)
           raised == ss.raised \/ st.raised \/ r.raised
       IN  /\ loaded' = [loaded EXCEPT
                  !["ship_data_statistics.json"] = ss,
                  !["ship_data_template.json"] = IF ss.raised THEN @ ELSE st]
           /\ ships' = IF raised THEN ships ELSE r.coll
           /\ pc' = IF raised THEN "crashed" ELSE "ships_parsed"
           /\ console' = [console EXCEPT
                  !.parsed["ships"] = IF raised THEN @ ELSE r.count,
                  !.errors["ships"] = IF raised THEN @ ELSE r.errors,
                  !.raised_in = IF raised THEN "parse_ships" ELSE @]
    /\ UNCHANGED <<disk, outdir, weapon_names, weapons, equipment, out_files,
                   progress_vars,
                   sanitize_vars, equipment_files, main_vars>>

\* self.analyze_equipment_stats(), line 567
AnalyzeEquipmentStats ==
    /\ pc = "ships_parsed"
    /\ LET r == analyze_equipment_stats(equipment)
       IN  /\ pc' = IF r.raised THEN "crashed" ELSE "equipment_analyzed"
           /\ console' = [console EXCEPT
                  !.equipment_report = IF r.raised THEN @ ELSE r.report,
                  !.raised_in = IF r.raised THEN "analyze_equipment_stats" ELSE @]
    /\ UNCHANGED <<disk, outdir, loaded, weapon_names, weapons, equipment, ships,
                   out_files, progress_vars,
                   sanitize_vars, equipment_files, main_vars>>

\* self.analyze_ship_stats(), line 568
AnalyzeShipStats ==
    /\ pc = "equipment_analyzed"
    /\ LET r == analyze_ship_stats(ships)
       IN  /\ pc' = IF r.raised THEN "crashed" ELSE "ships_analyzed"
           /\ console' = [console EXCEPT
                  !.ship_report = IF r.raised THEN @ ELSE r.report,
                  !.raised_in = IF r.raised THEN "analyze_ship_stats" ELSE @]
    /\ UNCHANGED <<disk, outdir, loaded, weapon_names, weapons, equipment, ships,
                   out_files, progress_vars,
                   sanitize_vars, equipment_files, main_vars>>

\* self.export_to_csv(), line 571
ExportToCsv ==
    /\ pc = "ships_analyzed"
    /\ LET r == export_to_csv(outdir, out_files, equipment, ships, weapons)
       IN  /\ out_files' = r.files
           /\ pc' = IF r.raised THEN "crashed" ELSE "csv_exported"
           /\ console' = [console EXCEPT
                  !.notices = IF r.aborted
                              THEN @ \cup {"Error creating output directory"}
                              ELSE @,
                  !.raised_in = IF r.raised THEN "export_to_csv" ELSE @]
    /\ UNCHANGED <<disk, outdir, loaded, weapon_names, weapons, equipment, ships,
                   progress_vars,
                   sanitize_vars, equipment_files, main_vars>>

\* self.export_to_json(), line 572
ExportToJson ==
    /\ pc = "csv_exported"
    /\ LET r == export_to_json(outdir, out_files, equipment, ships, weapons)
       IN  /\ out_files' = r.files
           /\ pc' = IF r.raised THEN "crashed" ELSE "json_exported"
           /\ console' = [console EXCEPT
                  !.raised_in = IF r.raised THEN "export_to_json" ELSE @]
    /\ UNCHANGED <<disk, outdir, loaded, weapon_names, weapons, equipment, ships,
                   progress_vars,
                   sanitize_vars, equipment_files, main_vars>>

\* lines 574-580: "Parsing complete!" and the totals
PrintComplete ==
    /\ pc = "json_exported"
    /\ pc' = "complete"
    /\ console' = [console EXCEPT !.notices = @ \cup {"Parsing complete!"}]
    /\ UNCHANGED <<disk, outdir, loaded, weapon_names, weapons, equipment, ships,
                   out_files, progress_vars,
                   sanitize_vars, equipment_files, main_vars>>

\* progress.json plays no part in a run of the parser
Init ==
    /\ \E snapshot \in Snapshots, dir \in {"ok", "blocked"} :
          ParserInit(snapshot, dir)
    /\ progress_file = FileMissing
    /\ last_call = NoCall
    /\ SanitizeIdle
    /\ ScraperIdle

Next ==
    \/ ParseWeapons
    \/ ParseEquipment
    \/ ParseShips
    \/ AnalyzeEquipmentStats
    \/ AnalyzeShipStats
    \/ ExportToCsv
    \/ ExportToJson
    \/ PrintComplete

Spec == Init /\ [][Next]_vars

(***************************************************************************)
(* The progress tracker on its own: the scraper's calls of update_progress *)
(* on a progress file that is missing or empty at first, and on one that   *)
(* was written by hand.                                                    *)
(***************************************************************************)
ParserIdle == ParserInit(Snapshot(MissingFile, MissingFile, MissingFile,
                                  MissingFile, MissingFile, MissingFile,
                                  MissingFile), "ok")

InitProgress ==
    /\ progress_file \in {FileMissing, FileMalformed, FileNonDict, FileDict(<<>>)}
    /\ last_call = NoCall
    /\ ParserIdle
    /\ SanitizeIdle
    /\ ScraperIdle

SpecProgress == InitProgress /\ [][UpdateProgress]_vars

\* a bucket of a hand-written file: something else than a list, or a list of
\* at most MaxBucketLen entries of the one name such a file lists
AnyBucket ==
    {JText("n/a")} \cup
    {JList(s) : s \in UNION {[1..k -> {items_to_process[1]}] : k \in 0..MaxBucketLen}}

InitProgressAny ==
    /\ \E basic \in AnyBucket, completed \in AnyBucket, partial \in AnyBucket,
          failed \in AnyBucket :
          progress_file = FileDict([key \in Buckets |->
              CASE key = "basic" -> basic
                [] key = "completed" -> completed
                [] key = "partial" -> partial
                [] OTHER -> failed])
    /\ last_call = NoCall
    /\ ParserIdle
    /\ SanitizeIdle
    /\ ScraperIdle

SpecProgressAny == InitProgressAny /\ [][UpdateProgress]_vars

(***************************************************************************)
(* Properties of the progress tracker.                                     *)
(***************************************************************************)
\* C1: from a missing or empty progress file, after any sequence of
\* update_progress calls every item name is listed at most once in the four
\* buckets together.
C1_BucketExclusivity ==
    \A item_name \in Items :
        Count(BucketOf(progress_file, "basic"), item_name)
            + Count(BucketOf(progress_file, "completed"), item_name)
            + Count(BucketOf(progress_file, "partial"), item_name)
            + Count(BucketOf(progress_file, "failed"), item_name) <= 1

\* an item was moved: it was in another bucket, and is now in the bucket
\* of the call, once
C1_ItemMoved ==
    /\ last_call.moved
    /\ last_call.status \in Buckets
    /\ Count(BucketOf(progress_file, last_call.status), last_call.item) = 1

\* C2: whatever the progress file held, after update_progress(item, s)
\* with s a bucket name the item is in no bucket other than s.
C2_OnlyInTargetBucket ==
    (last_call.item # "" /\ ~last_call.raised /\ last_call.status \in Buckets)
        => \A b \in Buckets \ {last_call.status} :
              last_call.item \notin Range(BucketOf(progress_file, b))

\* C3: a call of update_progress that repeats the call before it leaves
\* the four buckets as they were: same members, same order.
C3_RepeatedCallKeepsBuckets ==
    [][last_call'.repeat => BucketsOf(progress_file') = BucketsOf(progress_file)]_vars

\* a bucket of two or more members was left by a repeated call that put
\* the item into that bucket
C3_RepeatedCall ==
    /\ last_call.repeat
    /\ last_call.status \in Buckets
    /\ Len(BucketOf(progress_file, last_call.status)) >= 2

(***************************************************************************)
(* sanitize_csv_field on its own: one call on one value.                   *)
(***************************************************************************)
\* longest text handed to sanitize_csv_field
MaxFieldLen == 2

\* the six characters a spreadsheet takes for the start of a formula, and
\* three it does not, in strings of at most MaxFieldLen characters; and
\* values that are no strings
FieldValues ==
    {PyStr(s) : s \in UNION {[1..n -> {"=", "+", "-", "@", "\t", "\r", "a", "'", "1"}]
                             : n \in 0..MaxFieldLen}}
        \cup {PyInt(-1), PyInt(0), PyInt(7), PyNone, PyList(<<>>),
              PyList(<<PyInt(-1)>>), PyDict(<<>>)}

InitSanitize ==
    /\ field_value \in FieldValues
    /\ field_result = NoValue
    /\ progress_file = FileMissing
    /\ last_call = NoCall
    /\ ParserIdle
    /\ ScraperIdle

\* self.sanitize_csv_field(value)
SanitizeCsvField ==
    /\ field_result = NoValue
    /\ field_result' = sanitize_csv_field(field_value)
    /\ UNCHANGED <<field_value, parser_vars, progress_vars, equipment_files, main_vars>>

SpecSanitize == InitSanitize /\ [][SanitizeCsvField]_vars

(***************************************************************************)
(* Properties of the loader and of the parsing stage.                      *)
(***************************************************************************)
\* C4: load_json never raises; for a file that is missing, is malformed JSON
\* or cannot be read it returns the empty mapping, the very value it returns
\* for a file that holds an empty mapping.
C4_LoaderNeverRaises ==
    \A name \in FileNames :
        loaded[name].loaded =>
            /\ ~loaded[name].raised
            /\ disk[name].kind \in {"missing", "malformed", "unreadable"} =>
                  /\ loaded[name].ismap
                  /\ loaded[name].entries = <<>>
                  /\ \A found \in FileNames :
                        (loaded[found].loaded /\ disk[found] = JsonFile(<<>>)) =>
                            /\ loaded[found].ismap = loaded[name].ismap
                            /\ loaded[found].entries = loaded[name].entries

\* a run that went through although it read a file it could not read and a
\* file that was not there
C4_UnreadableFileLoaded ==
    /\ pc = "complete"
    /\ \E name \in FileNames :
          disk[name].kind = "unreadable" /\ loaded[name].loaded
    /\ \E name \in FileNames :
          disk[name].kind = "missing" /\ loaded[name].loaded

\* C5: the count each parse step reports is the number of records of its
\* table that parsed successfully: all but those reported as errors.
C5_CountIsParsedRecords ==
    LET ParsedRecords(table, entity) ==
            Len(loaded[table].entries) - Len(console.errors[entity])
        WeaponTable ==
            IF "using bullet_template" \in console.notices
            THEN "bullet_template.json" ELSE "weapon_property.json"
    IN
    /\ console.parsed["equipment"] # -1 =>
          console.parsed["equipment"] =
              ParsedRecords("equip_data_statistics.json", "equipment")
    /\ console.parsed["ships"] # -1 =>
          console.parsed["ships"] =
              ParsedRecords("ship_data_statistics.json", "ships")
    /\ console.parsed["weapons"] # -1 =>
          console.parsed["weapons"] = ParsedRecords(WeaponTable, "weapons")

\* C6: no failure terminates the run: run() is never ended by an exception.
C6_RunNeverCrashes == pc # "crashed"

\* C7: where the statistics record and the template record share an ID, a
\* field present in the template record (here name, rarity, star) is the
\* entity's value of that field (for a record whose ID no other key of the
\* table names).
C7_TemplateFieldsOverwrite ==
    LET SoleRecord(table, key) ==
            /\ DocHas(loaded[table], key)
            /\ int_ok(key)
            /\ \A other \in DocKeys(loaded[table]) :
                  (int_ok(other) /\ int_of(other) = int_of(key)) => other = key
    IN
    /\ \A key \in TableKeys :
          (/\ console.parsed["equipment"] # -1
           /\ SoleRecord("equip_data_statistics.json", key)
           /\ DictHas(equipment, int_of(key))
           /\ DocHas(loaded["equip_data_template.json"], key)) =>
              LET template == DocGet(loaded["equip_data_template.json"], key)
                  equip == DictGet(equipment, int_of(key))
              IN  /\ "name" \in DOMAIN template.f => equip.name = template.f["name"]
                  /\ "rarity" \in DOMAIN template.f =>
                        equip.rarity = template.f["rarity"]
    /\ \A key \in TableKeys :
          (/\ console.parsed["ships"] # -1
           /\ SoleRecord("ship_data_statistics.json", key)
           /\ DictHas(ships, int_of(key))
           /\ DocHas(loaded["ship_data_template.json"], key)) =>
              LET template == DocGet(loaded["ship_data_template.json"], key)
                  ship == DictGet(ships, int_of(key))
              IN  /\ "name" \in DOMAIN template.f => ship.name = template.f["name"]
                  /\ "star" \in DOMAIN template.f => ship.star = template.f["star"]

(***************************************************************************)
(* Properties of the CSV export.                                           *)
(***************************************************************************)
\* C8: a string that begins with '=', '+', '-', '@', tab or carriage return
\* comes back with one single quote in front; any other string, the empty
\* one included, comes back unchanged; a value that is no string comes back
\* as its text, str(value).
C8_SanitizedField ==
    field_result # NoValue =>
        IF /\ field_value.ty = "str"
           /\ field_value.s # <<>>
           /\ Head(field_value.s) \in {"=", "+", "-", "@", "\t", "\r"}
        THEN field_result = PyStr(<<"'">> \o field_value.s)
        ELSE IF field_value.ty = "str" THEN field_result = field_value
        ELSE field_result = PyStr(py_str(field_value))

\* the same with a value that is no string coming back unchanged
C8_NonStringUnchanged ==
    field_result # NoValue =>
        IF /\ field_value.ty = "str"
           /\ field_value.s # <<>>
           /\ Head(field_value.s) \in {"=", "+", "-", "@", "\t", "\r"}
        THEN field_result = PyStr(<<"'">> \o field_value.s)
        ELSE field_result = field_value

\* the integer -1 was sanitized: it came back as the text "-1"
C8_IntegerSanitized ==
    /\ field_value = PyInt(-1)
    /\ field_result = PyStr(<<"-", "1">>)

\* C9: no cell of a data row of an exported CSV begins with '=', '+', '-',
\* '@', tab or carriage return.
C9_NoCellStartsFormula ==
    \A name \in {"equipment_csv", "ships_csv", "weapons_csv"} :
        \A r \in 2..Len(out_files[name].rows) :
            LET row == out_files[name].rows[r]
            IN  \A i \in 1..Len(row) :
                    row[i] # <<>> =>
                        Head(row[i]) \notin {"=", "+", "-", "@", "\t", "\r"}

\* C10: every CSV file written starts with its header row, the file of an
\* empty collection included.
C10_CsvStartsWithHeader ==
    LET Fieldnames(name) ==
            CASE name = "equipment_csv" -> EquipFieldnames
              [] name = "ships_csv" -> ShipFieldnames
              [] OTHER -> WeaponFieldnames
    IN  \A name \in {"equipment_csv", "ships_csv", "weapons_csv"} :
            out_files[name].exists =>
                /\ out_files[name].rows # <<>>
                /\ out_files[name].rows[1] = Fieldnames(name)

(***************************************************************************)
(* A run over one ship whose stat vectors have any length up to the full   *)
(* one and one beyond.                                                     *)
(***************************************************************************)
\* the stats of a vector, [0] * 12 at lines 256-257
NumStats == 12

\* a ship with n stats and m growth rates, each vector 5000, 100, 3, 4, ...
ShipWithVectors(n, m) ==
    LET StatVector(len) ==
            PyList([i \in 1..len |->
                       PyInt(CASE i = 1 -> 5000 [] i = 2 -> 100 [] OTHER -> i)])
    IN  PyDict([name |-> PyStr(<<"L", "a", "f", "f", "e", "y">>), type |-> PyInt(1),
                attrs |-> StatVector(n), attrs_growth |-> StatVector(m)])

InitShipVectors ==
    /\ \E n \in 0..(NumStats + 1), m \in 0..(NumStats + 1), dir \in {"ok", "blocked"} :
          ParserInit(Snapshot(MissingFile, MissingFile, MissingFile, MissingFile,
                              MissingFile,
                              JsonFile(<<[key |-> <<"1">>, val |-> ShipWithVectors(n, m)]>>),
                              MissingFile), dir)
    /\ progress_file = FileMissing
    /\ last_call = NoCall
    /\ SanitizeIdle
    /\ ScraperIdle

SpecShipVectors == InitShipVectors /\ [][Next]_vars

\* C11: a ship whose attrs or attrs_growth vector is shorter than 12 is
\* inserted, each stat (growth) field at an index the vector has being the
\* element there, and each field beyond the vector's length 0.
C11_ShortVectorPadded ==
    LET StatFields ==
            <<"hp", "firepower", "torpedo", "antiair", "aviation", "reload",
              "armor", "hit", "evasion", "speed", "luck", "antisub">>
        GrowthFields ==
            <<"hp_growth", "firepower_growth", "torpedo_growth", "antiair_growth",
              "aviation_growth", "reload_growth", "armor_growth", "hit_growth",
              "evasion_growth", "", "", "antisub_growth">>
        Padded(ship, fields, vector) ==
            \A i \in 1..12 :
                fields[i] # "" =>
                    ship[fields[i]] =
                        IF i <= Len(vector) THEN vector[i] ELSE PyInt(0)
        table == loaded["ship_data_statistics.json"].entries
    IN  console.parsed["ships"] # -1 =>
            \A r \in 1..Len(table) :
                LET data == table[r].val
                IN  (/\ data.ty = "dict"
                     /\ int_ok(table[r].key)
                     /\ {"attrs", "attrs_growth"} \subseteq DOMAIN data.f
                     /\ data.f["attrs"].ty = "list"
                     /\ data.f["attrs_growth"].ty = "list"
                     /\ \/ Len(data.f["attrs"].l) < 12
                        \/ Len(data.f["attrs_growth"].l) < 12) =>
                        /\ DictHas(ships, int_of(table[r].key))
                        /\ Padded(DictGet(ships, int_of(table[r].key)), StatFields,
                                  data.f["attrs"].l)
                        /\ Padded(DictGet(ships, int_of(table[r].key)), GrowthFields,
                                  data.f["attrs_growth"].l)

\* the ship of scenario 2 was parsed: attrs = [5000, 100], no growth at all
C11_TwoStatsParsed ==
    /\ pc = "complete"
    /\ disk["ship_data_statistics.json"] =
          JsonFile(<<[key |-> <<"1">>, val |-> ShipWithVectors(2, 0)]>>)
    /\ DictHas(ships, 1)
    /\ DictGet(ships, 1).hp = PyInt(5000)
    /\ DictGet(ships, 1).firepower = PyInt(100)
    /\ DictGet(ships, 1).torpedo = PyInt(0)
    /\ DictGet(ships, 1).antisub_growth = PyInt(0)

(***************************************************************************)
(* A run over one equipment record or one ship record whose type, rarity   *)
(* and nationality are codes inside and outside the lookup tables.         *)
(***************************************************************************)
\* 1 is a key of every table, 0 of NATIONS only, 7 of all but RARITIES,
\* -1 and 99 of none
CodeSamples == {-1, 0, 1, 7, 99}

InitCodes ==
    /\ \E type \in CodeSamples, rarity \in CodeSamples, nationality \in CodeSamples,
          is_ship \in BOOLEAN, dir \in {"ok", "blocked"} :
          LET record == PyDict([name |-> PyStr(<<"C", "o", "d", "e", "d">>), type |-> PyInt(type),
                                rarity |-> PyInt(rarity),
                                nationality |-> PyInt(nationality)])
              table == JsonFile(<<[key |-> <<"1">>, val |-> record]>>)
          IN  ParserInit(Snapshot(MissingFile, MissingFile, MissingFile,
                                  IF is_ship THEN MissingFile ELSE table,
                                  MissingFile,
                                  IF is_ship THEN table ELSE MissingFile,
                                  MissingFile), dir)
    /\ progress_file = FileMissing
    /\ last_call = NoCall
    /\ SanitizeIdle
    /\ ScraperIdle

SpecCodes == InitCodes /\ [][Next]_vars

\* C12: the display name of an integer code is the table's name for it, and
\* "Unknown" for a code that is no key of the table, never the empty string:
\* in the parsed entity (type_name), in the CSV rows (type_name, rarity,
\* nationality) and in the JSON records (type name, rarity_name,
\* nation_name).
C12_UnmappedCodeIsUnknown ==
    LET Name(table, code) ==
            IF code.n \in DOMAIN table THEN table[code.n] ELSE <<"U", "n", "k", "n", "o", "w", "n">>
        Named(e, types) ==
            /\ e.type_name = PyStr(Name(types, e.type))
            /\ e.type_name.s # <<>>
        RowNamed(row, e, types) ==
            /\ row[1] = py_str(e.id) =>
                  /\ row[3] = Name(types, e.type)
                  /\ row[4] = Name(RARITIES, e.rarity)
                  /\ row[5] = Name(NATIONS, e.nationality)
            /\ row[3] # <<>> /\ row[4] # <<>> /\ row[5] # <<>>
        RecordNamed(group, rec, types) ==
            /\ group = Name(types, rec.type)
            /\ rec.type_name = PyStr(group)
            /\ rec.rarity_name = PyStr(Name(RARITIES, rec.rarity))
            /\ rec.nation_name = PyStr(Name(NATIONS, rec.nationality))
            /\ rec.rarity_name.s # <<>> /\ rec.nation_name.s # <<>>
        IntCodes(coll) ==
            \A i \in 1..Len(coll) :
                /\ coll[i].v.type.ty = "int"
                /\ coll[i].v.rarity.ty = "int"
                /\ coll[i].v.nationality.ty = "int"
        Holds(coll, types, csv, json) ==
            IntCodes(coll) =>
                /\ \A i \in 1..Len(coll) : Named(coll[i].v, types)
                /\ \A r \in 2..Len(csv.rows) :
                      \A i \in 1..Len(coll) : RowNamed(csv.rows[r], coll[i].v, types)
                /\ \A g \in 1..Len(json.doc) :
                      \A i \in 1..Len(json.doc[g].v) :
                          RecordNamed(json.doc[g].k, json.doc[g].v[i], types)
    IN  /\ Holds(equipment, EQUIP_TYPES, out_files.equipment_csv,
                 out_files.equipment_json)
        /\ Holds(ships, SHIP_TYPES,
                 [rows |-> [r \in 1..Len(out_files.ships_csv.rows) |->
                               LET row == out_files.ships_csv.rows[r]
                               IN  <<row[1], row[2], row[4], row[5], row[6]>>]],
                 out_files.ships_json)

\* an equipment record whose three codes are in no table went through
\* parsing and both exports
C12_UnknownExported ==
    /\ pc = "complete"
    /\ DictHas(equipment, 1)
    /\ DictGet(equipment, 1).type = PyInt(99)
    /\ DictGet(equipment, 1).rarity = PyInt(-1)
    /\ DictGet(equipment, 1).nationality = PyInt(99)
    /\ DictGet(equipment, 1).type_name = PyStr(<<"U", "n", "k", "n", "o", "w", "n">>)
    /\ Len(out_files.equipment_csv.rows) = 2
    /\ out_files.equipment_json.exists

(***************************************************************************)
(* Properties of the collections.                                          *)
(***************************************************************************)
\* C13: in each collection the entity stored under the integer key k has the
\* id k, and k is the integer value of the key of a record of the source
\* table.
C13_IdRoundTrip ==
    LET FromTable(coll, table) ==
            \A i \in 1..Len(coll) :
                /\ coll[i].v.id = PyInt(coll[i].k)
                /\ \E r \in 1..Len(loaded[table].entries) :
                      /\ int_ok(loaded[table].entries[r].key)
                      /\ int_of(loaded[table].entries[r].key) = coll[i].k
    IN  /\ FromTable(equipment, "equip_data_statistics.json")
        /\ FromTable(ships, "ship_data_statistics.json")
        /\ FromTable(weapons,
                     IF "using bullet_template" \in console.notices
                     THEN "bullet_template.json" ELSE "weapon_property.json")

\* weapons parsed from the keys "01" and "2" are stored under 1 and 2
C13_KeysParsed ==
    /\ pc = "complete"
    /\ DocKeys(loaded["weapon_property.json"]) = {<<"0", "1">>, <<"2">>}
    /\ DictKeys(weapons) = {1, 2}
    /\ DictGet(weapons, 1).id = PyInt(1)

\* C14: a numeric code absent from the source record is 0 in the parsed
\* Equipment or Ship, and a sequence field absent from it is empty (for a
\* record whose ID no other key of the table names).
C14_AbsentFieldsDefault ==
    LET Defaulted(e, data, codes, sequences) ==
            /\ \A c \in codes : c[1] \notin DOMAIN data.f => e[c[2]] = PyInt(0)
            /\ \A s \in sequences : s[1] \notin DOMAIN data.f => e[s[2]] = PyList(<<>>)
        Holds(coll, table, codes, sequences) ==
            \A r \in 1..Len(loaded[table].entries) :
                LET key == loaded[table].entries[r].key
                    data == loaded[table].entries[r].val
                IN  (/\ int_ok(key)
                     /\ DictHas(coll, int_of(key))
                     /\ \A o \in 1..Len(loaded[table].entries) :
                           LET other == loaded[table].entries[o].key
                           IN  (int_ok(other) /\ int_of(other) = int_of(key)) => o = r)
                        => Defaulted(DictGet(coll, int_of(key)), data, codes, sequences)
    IN  /\ console.parsed["equipment"] # -1 =>
              Holds(equipment, "equip_data_statistics.json",
                    {<<"type", "type">>, <<"rarity", "rarity">>,
                     <<"nationality", "nationality">>, <<"tech", "tech">>,
                     <<"ammo", "ammo_type">>},
                    {<<"weapon_id", "weapon_ids">>, <<"property_rate", "property_rate">>,
                     <<"part_main", "part_main">>, <<"part_sub", "part_sub">>})
        /\ console.parsed["ships"] # -1 =>
              Holds(ships, "ship_data_statistics.json",
                    {<<"type", "type">>, <<"rarity", "rarity">>,
                     <<"nationality", "nationality">>, <<"star", "star">>,
                     <<"armor_type", "armor_type">>},
                    {<<"equipment_proficiency", "equipment_proficiency">>,
                     <<"base_list", "base_list">>, <<"preload_count", "preload_count">>})

(***************************************************************************)
(* Properties of a whole run.                                              *)
(***************************************************************************)
\* C15: the files a complete run has written are the files a run over the
\* same tables writes, be it a run of a new parser or a second run() of the
\* same parser, which starts from the collections of the first.
C15_SecondRunSameFiles ==
    LET Files(old_names, old_weapons, old_equipment, old_ships, old_files) ==
            LET w == parse_weapons(load_json(disk["weapon_name.json"]),
                                   load_json(disk["weapon_property.json"]),
                                   load_json(disk["bullet_template.json"]),
                                   old_names, old_weapons)
                e == parse_equipment(load_json(disk["equip_data_statistics.json"]),
                                     load_json(disk["equip_data_template.json"]),
                                     old_equipment)
                s == parse_ships(load_json(disk["ship_data_statistics.json"]),
                                 load_json(disk["ship_data_template.json"]),
                                 old_ships)
                csv == export_to_csv(outdir, old_files, e.coll, s.coll, w.coll)
            IN  export_to_json(outdir, csv.files, e.coll, s.coll, w.coll).files
    IN  pc = "complete" =>
            /\ out_files = Files(<<>>, <<>>, <<>>, <<>>, NoFiles)
            /\ out_files = Files(weapon_names, weapons, equipment, ships, out_files)

\* a complete run that wrote two equipment rows, two records of one JSON
\* category among them
C15_TwoRowsWritten ==
    /\ pc = "complete"
    /\ Len(out_files.equipment_csv.rows) = 3
    /\ \E g \in 1..Len(out_files.equipment_json.doc) :
          Len(out_files.equipment_json.doc[g].v) = 2

\* C16: with an output directory that cannot be created neither export step
\* raises: the run is not ended in export_to_csv or export_to_json.
C16_ExportStepsAbortAlone ==
    outdir = "blocked" => console.raised_in \notin {"export_to_csv", "export_to_json"}

\* C17: the nationalities and the rarities of the summary document are
\* exactly the display names of the parsed equipment and ships.
C17_SummaryNamesObserved ==
    LET entities == DictValues(equipment) \o DictValues(ships)
        Observed(table, field) ==
            {IF entities[i][field].n \in DOMAIN table
             THEN table[entities[i][field].n] ELSE <<"U", "n", "k", "n", "o", "w", "n">>
             : i \in 1..Len(entities)}
        summary == out_files.summary_json.doc
    IN  out_files.summary_json.exists =>
            /\ Range(summary.nationalities) = Observed(NATIONS, "nationality")
            /\ Range(summary.rarities) = Observed(RARITIES, "rarity")

\* C18: when two keys of a table name the same ID and both records parse,
\* the collection holds one entry for the ID, with the fields of the record
\* read last; neither key is reported as an error, and the count printed is
\* the number of distinct IDs in the collection.
C18_LastWriteWins ==
    LET Holds(coll, table, entity, fields) ==
            console.parsed[entity] # -1 =>
                /\ console.parsed[entity] = Cardinality(DictKeys(coll))
                /\ \A r1, r2 \in 1..Len(loaded[table].entries) :
                      LET first == loaded[table].entries[r1]
                          last == loaded[table].entries[r2]
                      IN  (/\ r1 < r2
                           /\ int_ok(first.key) /\ int_ok(last.key)
                           /\ int_of(first.key) = int_of(last.key)
                           /\ first.val.ty = "dict" /\ last.val.ty = "dict"
                           /\ first.key \notin Range(console.errors[entity])
                           /\ last.key \notin Range(console.errors[entity])
                           /\ \A r3 \in (r2 + 1)..Len(loaded[table].entries) :
                                 LET later == loaded[table].entries[r3].key
                                 IN  int_ok(later) =>
                                         int_of(later) # int_of(last.key)) =>
                              /\ Cardinality({i \in 1..Len(coll) :
                                                coll[i].k = int_of(last.key)}) = 1
                              /\ \A f \in fields :
                                    f[1] \in DOMAIN last.val.f =>
                                        DictGet(coll, int_of(last.key))[f[2]]
                                            = last.val.f[f[1]]
                              /\ \A f \in fields :
                                    (f[1] \notin DOMAIN last.val.f
                                         /\ f[1] \in DOMAIN first.val.f) =>
                                        DictGet(coll, int_of(last.key))[f[2]]
                                            # first.val.f[f[1]]
    IN  /\ Holds(equipment, "equip_data_statistics.json", "equipment",
                 {<<"name", "name">>, <<"type", "type">>, <<"rarity", "rarity">>,
                  <<"tech", "tech">>, <<"weapon_id", "weapon_ids">>,
                  <<"descrip", "description">>})
        /\ Holds(ships, "ship_data_statistics.json", "ships",
                 {<<"name", "name">>, <<"english_name", "english_name">>,
                  <<"type", "type">>, <<"star", "star">>})
        /\ Holds(weapons,
                 IF "using bullet_template" \in console.notices
                 THEN "bullet_template.json" ELSE "weapon_property.json",
                 "weapons",
                 {<<"damage", "damage">>, <<"reload_max", "reload_max">>,
                  <<"range", "range">>, <<"type", "type">>})

\* the keys "1" and "01" held two different equipment records: one entry,
\* with the name of the second, and a count of 1
C18_SecondRecordKept ==
    /\ pc = "complete"
    /\ disk["equip_data_statistics.json"] =
          JsonFile(<<[key |-> <<"1">>, val |-> EquipExample],
                     [key |-> <<"0", "1">>, val |-> EquipHostile]>>)
    /\ Len(equipment) = 1
    /\ DictGet(equipment, 1).name = PyStr(<<"=", "c", "m", "d">>)
    /\ console.parsed["equipment"] = 1
    /\ console.errors["equipment"] = <<>>

\* C19: parse_weapons reads bullet_template.json if and only if
\* weapon_property.json is missing, is malformed, cannot be read or holds
\* nothing, and says so; otherwise it builds the weapons from
\* weapon_property.json alone.  A weapon whose ID the name table lacks is
\* inserted with the empty name, any other with the name of the table.
C19_WeaponSourceFallback ==
    LET property == disk["weapon_property.json"]
        fallback == "using bullet_template" \in console.notices
        source == loaded[IF fallback THEN "bullet_template.json"
                         ELSE "weapon_property.json"].entries
        names == loaded["weapon_name.json"].entries
        Named(id) == {n \in 1..Len(names) :
                         isdigit(names[n].key) /\ int_of(names[n].key) = id}
    IN  /\ loaded["weapon_property.json"].loaded =>
              /\ fallback <=>
                    \/ property.kind \in {"missing", "malformed", "unreadable"}
                    \/ property = JsonFile(<<>>)
              /\ loaded["bullet_template.json"].loaded <=> fallback
        /\ console.parsed["weapons"] # -1 =>
              \A r \in 1..Len(source) :
                  (int_ok(source[r].key) /\ source[r].val.ty = "dict") =>
                      LET id == int_of(source[r].key)
                      IN  /\ DictHas(weapons, id)
                          /\ Named(id) = {} => DictGet(weapons, id).name = PyStr(<<>>)
                          /\ Named(id) # {} =>
                                \E n \in Named(id) :
                                    DictGet(weapons, id).name = names[n].val

\* the same with the tables the statement names: missing, malformed or empty
C19_FallbackUnlessReadable ==
    LET property == disk["weapon_property.json"]
        fallback == "using bullet_template" \in console.notices
    IN  loaded["weapon_property.json"].loaded =>
            /\ fallback <=>
                  \/ property.kind \in {"missing", "malformed"}
                  \/ property = JsonFile(<<>>)
            /\ loaded["bullet_template.json"].loaded <=> fallback

\* weapon_property.json could not be read: the weapon of
\* bullet_template.json was built, without a name
C19_FallbackWeaponUnnamed ==
    /\ pc = "complete"
    /\ disk["weapon_property.json"].kind = "unreadable"
    /\ "using bullet_template" \in console.notices
    /\ DictHas(weapons, 2)
    /\ DictGet(weapons, 2).name = PyStr(<<>>)

(***************************************************************************)
(* A run over equipment and ships of two types whose ranking keys are      *)
(* equal, differ in the second key, or differ in the first.                *)
(***************************************************************************)
\* type, rarity, and the second key (tech of an equipment, hp of a ship)
RankClasses == {<<1, 1, 0>>, <<1, 2, 0>>, <<1, 2, 1>>, <<2, 2, 0>>}

\* each table holds one record more than the longest list of top entities,
\* and lists the IDs downwards
InitRanking ==
    /\ \E classes \in [1..(TopEquipmentCount + 1) -> RankClasses] :
          LET RankedTable(is_ship) ==
                  JsonFile([i \in 1..(TopEquipmentCount + 1) |->
                      [key |-> NatToStr(TopEquipmentCount + 2 - i),
                       val |-> IF is_ship
                               THEN PyDict([name |-> PyStr(<<"S", "h", "i", "p">>),
                                            type |-> PyInt(classes[i][1]),
                                            rarity |-> PyInt(classes[i][2]),
                                            attrs |-> PyList(<<PyInt(classes[i][3])>>)])
                               ELSE PyDict([name |-> PyStr(<<"G", "e", "a", "r">>),
                                            type |-> PyInt(classes[i][1]),
                                            rarity |-> PyInt(classes[i][2]),
                                            tech |-> PyInt(classes[i][3])])]])
          IN  ParserInit(Snapshot(MissingFile, MissingFile, MissingFile,
                                  RankedTable(FALSE), MissingFile,
                                  RankedTable(TRUE), MissingFile), "ok")
    /\ progress_file = FileMissing
    /\ last_call = NoCall
    /\ SanitizeIdle
    /\ ScraperIdle

SpecRanking == InitRanking /\ [][Next]_vars

\* C20: each type's report counts the entities of the type and lists its
\* top entities (5 equipment, 3 ships): the first of the type in the order
\* rarity downwards, then second key downwards, then place in the
\* collection.
C20_TopRankingOrder ==
    LET Holds(coll, report, second, top_count) ==
            LET Members(type_name) ==
                    {i \in 1..Len(coll) : coll[i].v.type_name.s = type_name}
                Place(id) == CHOOSE i \in 1..Len(coll) : coll[i].k = id
                Ahead(i, j) ==
                    \/ coll[i].v.rarity.n > coll[j].v.rarity.n
                    \/ /\ coll[i].v.rarity.n = coll[j].v.rarity.n
                       /\ coll[i].v[second].n > coll[j].v[second].n
                    \/ /\ coll[i].v.rarity.n = coll[j].v.rarity.n
                       /\ coll[i].v[second].n = coll[j].v[second].n
                       /\ i < j
            IN  /\ {g.type_name : g \in report} =
                      {coll[i].v.type_name.s : i \in 1..Len(coll)}
                /\ \A g \in report :
                      LET listed == {Place(g.top[t]) : t \in 1..Len(g.top)}
                      IN  /\ g.count = Cardinality(Members(g.type_name))
                          /\ Len(g.top) = IF g.count < top_count THEN g.count
                                          ELSE top_count
                          /\ listed \subseteq Members(g.type_name)
                          /\ \A t, u \in 1..Len(g.top) :
                                t < u => Ahead(Place(g.top[t]), Place(g.top[u]))
                          /\ \A i \in listed, j \in Members(g.type_name) \ listed :
                                Ahead(i, j)
    IN  /\ pc \in {"equipment_analyzed", "ships_analyzed", "csv_exported",
                   "json_exported", "complete"} =>
              Holds(equipment, console.equipment_report, "tech", 5)
        /\ pc \in {"ships_analyzed", "csv_exported", "json_exported", "complete"} =>
              Holds(ships, console.ship_report, "hp", 3)

\* six equipment of one type were ranked: the two of rarity 1 are left for
\* the end, and of the four equal ones the first three inserted come first
C20_TiesInInsertionOrder ==
    /\ pc = "complete"
    /\ \E g \in console.equipment_report :
          g.count = 6 /\ g.top = <<4, 3, 2, 1, 6>>
    /\ \E g \in console.ship_report :
          g.count = 6 /\ g.top = <<4, 3, 2>>

(***************************************************************************)
(* save_item on its own: the scraper saving two items, again and again,    *)
(* into one equipment file that holds records of an earlier run.           *)
(***************************************************************************)
\* scraper.save_item(scraper.scrape_item(item_name, equipment_type),
\*                   equipment_type)
SaveItem ==
    /\ \E item_name \in {items_to_process[1], items_to_process[2]},
          answers \in ScrapeAnswers, now \in Timestamps :
          save_item(scrape_item(item_name, equipment_types[1], answers[1],
                                answers[2], now),
                    equipment_types[1])
    /\ UNCHANGED main_vars

\* the file of the first equipment type is missing, or lists records of up
\* to three items, one record an item, as an earlier run saved them
InitSaveItem ==
    /\ \E names \in UNION {{s \in [1..n -> {items_to_process[i] : i \in 1..3}] :
                              \A i, j \in 1..n : i # j => s[i] # s[j]}
                          : n \in 0..3},
          exists \in BOOLEAN :
          /\ exists \/ names = <<>>
          /\ equipment_files =
                [t \in Range(equipment_types) |->
                    IF t = equipment_types[1]
                    THEN [exists |-> exists,
                          items |-> [i \in 1..Len(names) |->
                              scrape_item(names[i], t,
                                          [raised |-> FALSE, data |-> {}],
                                          [raised |-> FALSE, data |-> {}],
                                          "2025-01-01T00:00:00")]]
                    ELSE [exists |-> FALSE, items |-> <<>>]]
    /\ progress_file \in {FileMissing, FileMalformed}
    /\ last_call = NoCall
    /\ main_pc = "idle"
    /\ todo = <<>>
    /\ processed = <<>>
    /\ batch = <<>>
    /\ batch_status = <<>>
    /\ commit_calls = <<>>
    /\ ParserIdle
    /\ SanitizeIdle

SpecSaveItem == InitSaveItem /\ [][SaveItem]_vars

(***************************************************************************)
(* Properties of save_item.                                                *)
(***************************************************************************)
\* C21: update_progress called with a status that names none of the four
\* buckets takes the item out of all four and puts it into none; an item
\* that scrape_item labels 'complete', having both numbers and an analysis,
\* is in no bucket after save_item, and the bucket 'completed' stays empty.
C21_CompleteItemInNoBucket ==
    /\ (last_call.item # "" /\ ~last_call.raised /\ last_call.status \notin Buckets)
          => \A b \in Buckets :
                last_call.item \notin Range(BucketOf(progress_file, b))
    /\ \A i \in 1..Len(equipment_files[equipment_types[1]].items) :
          LET item == equipment_files[equipment_types[1]].items[i]
          IN  /\ item.dataCompleteness = "complete"
                    <=> (item.stats_numerical # {} /\ item.derived_analysis # {})
              /\ item.dataCompleteness = "complete"
                    => \A b \in Buckets :
                          item.itemName \notin Range(BucketOf(progress_file, b))
    /\ BucketOf(progress_file, "completed") = <<>>

\* an item that was in a bucket has been saved with the label 'complete'
C21_CompleteItemLeftBucket ==
    /\ last_call.status = "complete"
    /\ last_call.moved
    /\ ~last_call.raised
    /\ \E i \in 1..Len(equipment_files[equipment_types[1]].items) :
          LET item == equipment_files[equipment_types[1]].items[i]
          IN  /\ item.itemName = last_call.item
              /\ item.dataCompleteness = "complete"

\* C23: an equipment file that holds at most one record an item name keeps
\* doing so under save_item; saving a name the file holds puts the new
\* record where the old one was and leaves every other record as and where
\* it was, saving a new name adds the record at the end.
C23_SaveItemUpserts ==
    /\ [](\A t \in DOMAIN equipment_files :
             \A i, j \in 1..Len(equipment_files[t].items) :
                 i # j => equipment_files[t].items[i].itemName
                              # equipment_files[t].items[j].itemName)
    /\ [][\A t \in DOMAIN equipment_files :
             LET old == equipment_files[t].items
                 new == equipment_files'[t].items
                 name == last_call'.item
             IN  IF t # equipment_types[1]
                 THEN equipment_files'[t] = equipment_files[t]
                 ELSE /\ equipment_files'[t].exists
                      /\ IF \E i \in 1..Len(old) : old[i].itemName = name
                         THEN /\ Len(new) = Len(old)
                              /\ \A i \in 1..Len(old) :
                                    IF old[i].itemName = name
                                    THEN /\ new[i].itemName = name
                                         /\ new[i].dataCompleteness = last_call'.status
                                    ELSE new[i] = old[i]
                         ELSE /\ Len(new) = Len(old) + 1
                              /\ SubSeq(new, 1, Len(old)) = old
                              /\ new[Len(new)].itemName = name
                              /\ new[Len(new)].dataCompleteness = last_call'.status]_vars

\* the second of three records has just been replaced where it was
C23_MiddleRecordReplaced ==
    LET items == equipment_files[equipment_types[1]].items
    IN  /\ Len(items) = 3
        /\ items[2].itemName = last_call.item
        /\ items[2].dataCompleteness = "complete"
        /\ items[1].dataCompleteness = "basic"
        /\ items[3].itemName = items_to_process[3]

(***************************************************************************)
(* The collection run: run_collection.py.                                  *)
(***************************************************************************)
\* main() commits every BatchSize items
BatchSize == 5

\* a faulty variant: the status of the first item stands for the batch
commit_status_of_first(statuses) == statuses[1]

\* lines 38 and 45: len(set(batch_status)) > 1
commit_status(statuses) ==
    IF Cardinality(Range(statuses)) > 1 THEN "Mixed" ELSE statuses[1]

\* utils.commit_changes(item_names, status): the message names the first
\* three items and counts the others; git commits when the index differs
\* from HEAD, which the repository decides
commit_changes(item_names, status, has_changes) ==
    [item_names |-> item_names,
     status |-> status,
     message |-> [items |-> SubSeq(item_names, 1,
                                   IF Len(item_names) > 3 THEN 3 ELSE Len(item_names)),
                  more |-> IF Len(item_names) > 3 THEN Len(item_names) - 3 ELSE 0,
                  status |-> status],
     committed |-> has_changes]

\* lines 28-41, one pass of the loop; an exception of save_item ends main().
\* The sources answer or answer nothing here: one that raises leaves main()
\* the status of one that answers nothing.
ProcessItem ==
    /\ main_pc = "loop"
    /\ todo # <<>>
    /\ \E answers \in {a \in ScrapeAnswers : ~a[1].raised /\ ~a[2].raised},
          now \in Timestamps :
          LET item_name == Head(todo)[1]
              equipment_type == Head(todo)[2]
              item_data == scrape_item(item_name, equipment_type, answers[1],
                                       answers[2], now)
              status == item_data.dataCompleteness
              filled == Append(batch, item_name)
              filled_status == Append(batch_status, status)
          IN  /\ save_item(item_data, equipment_type)
              /\ IF load_progress(progress_file).raised
                 THEN /\ main_pc' = "crashed"
                      /\ UNCHANGED <<todo, processed, batch, batch_status,
                                     commit_calls>>
                 ELSE /\ main_pc' = "loop"
                      /\ todo' = Tail(todo)
                      /\ processed' =
                            Append(processed, [item |-> item_name, status |-> status])
                      /\ IF Len(filled) >= BatchSize
                         THEN /\ \E has_changes \in BOOLEAN :
                                    commit_calls' =
                                        Append(commit_calls,
                                               commit_changes(
                                                   filled,
                                                   commit_status(filled_status),
                                                   has_changes))
                              /\ batch' = <<>>
                              /\ batch_status' = <<>>
                         ELSE /\ batch' = filled
                              /\ batch_status' = filled_status
                              /\ UNCHANGED commit_calls

\* lines 43-46: the items left over are committed, and main() returns
CommitRemaining ==
    /\ main_pc = "loop"
    /\ todo = <<>>
    /\ main_pc' = "done"
    /\ IF batch # <<>>
       THEN \E has_changes \in BOOLEAN :
               commit_calls' =
                   Append(commit_calls,
                          commit_changes(batch, commit_status(batch_status),
                                         has_changes))
       ELSE UNCHANGED commit_calls
    /\ UNCHANGED <<todo, processed, batch, batch_status, equipment_files,
                   progress_vars, parser_vars, sanitize_vars>>

\* main() starts on a list of up to BatchSize + 1 of the items, with no
\* equipment file, and with no progress file or one that cannot be decoded
InitCollection ==
    /\ \E n \in 0..(BatchSize + 1) :
          todo = [i \in 1..n |-> <<items_to_process[i], equipment_types[i]>>]
    /\ main_pc = "loop"
    /\ processed = <<>>
    /\ batch = <<>>
    /\ batch_status = <<>>
    /\ commit_calls = <<>>
    /\ equipment_files =
          [t \in Range(equipment_types) |-> [exists |-> FALSE, items |-> <<>>]]
    /\ progress_file \in {FileMissing, FileMalformed}
    /\ last_call = NoCall
    /\ ParserIdle
    /\ SanitizeIdle

SpecCollection == InitCollection /\ [][ProcessItem \/ CommitRemaining]_vars

====
